---- MODULE Spec2Model ----
(***************************************************************************)
(* Model of the market-data streaming core of tidb_agentic_signal:         *)
(*   - trader.WSHub / trader.WSClient (internal/trader/binance.go): the    *)
(*     broadcast hub, its control loop and the per-connection pumps;       *)
(*   - trader.BinanceWebSocketManager: the upstream stream session;        *)
(*   - services.MarketDataService: the price cache and its writers.        *)
(***************************************************************************)
EXTENDS Integers, Sequences, FiniteSets, TLC

(***************************************************************************)
(* Bounds of the model.                                                    *)
(***************************************************************************)
\* number of downstream connections that are ever accepted
NumClients == 2
\* number of Broadcast calls that are ever made
MaxMsgs == 3
\* capacity of a client's send channel (make(chan []byte, 256) in the source)
SendCap == 2
\* capacity of the hub's broadcast channel (make(chan []byte, 256))
BroadcastCap == 2

\* number of successful starts of the upstream session
MaxStarts == 2
\* number of inbound frames read from the upstream feed
MaxFrames == 3

\* largest reading of the clock (time.Now())
MaxTime == 1

\* number of connections ever accepted on /ws/market
NumMarketConns == 1
\* number of subscribe_symbol requests served per connection
MaxSubs == 2

\* number of flush ticks that are ever run
MaxFlushes == 2

\* number of calls the event handlers make on the persistence interface
MaxStores == 2
\* number of candle updates handed to handleKlineUpdate
MaxKlines == 2
\* number of distinct candle open times
NumOpenTimes == 2

\* number of connections ever accepted on the legacy endpoint /ws
NumLegacyConns == 2
\* number of messages ever handed to the legacy hub
MaxLegacyMsgs == 2

\* number of concurrent callers of svc.Init
NumCallers == 3

\* instruments: one the service tracks from the start, one it does not
AllSymbols == {"BTCUSDT", "XRPUSDT"}
SymbolOrder == <<"BTCUSDT", "XRPUSDT">>
InitialSymbols == {"BTCUSDT"}

Clients == 1..NumClients
MarketConns == 1..NumMarketConns
Subs == 1..MaxSubs
Gens == 1..MaxStarts
Times == 0..MaxTime
OpenTimes == 1..NumOpenTimes
Callers == 1..NumCallers
LegacyConns == 1..NumLegacyConns

VARIABLES
    \* ---- trader.WSHub ----
    clients,      \* h.clients: the registry (set of registered clients)
    broadcast,    \* h.broadcast: buffered channel of messages
    hubpc,        \* WSHub.Run: "run", or "panic" after a send on / close of a closed channel
    \* ---- trader.WSClient ----
    sendq,        \* c.send: buffered channel contents
    sendClosed,   \* c.send has been closed
    connClosed,   \* c.conn.Close() has been called
    handler,      \* position of HandleWebSocket for the connection
    rp,           \* position of readPump
    wp,           \* position of writePump
    written,      \* data messages written to the transport, in order
    \* ---- callers of Broadcast ----
    nextId,       \* id of the next message handed to Broadcast
    \* ---- history ----
    enq,          \* per client: every message ever enqueued on c.send, in order
    processed,    \* messages received by the control loop, in order
    regAt,        \* for each of them, the registry when it was received
    fullAt        \* for each of them, the registered clients whose channel was full

VARIABLES
    \* ---- trader.BinanceWebSocketManager ----
    isRunning,    \* wsm.isRunning
    conn,         \* wsm.conn: "nil" | "open" | "broken" (the transport failed) | "closed"
    ctxDone,      \* wsm.ctx is cancelled
    gen,          \* number of successful Start calls (each launches its loops)
    readLoop,     \* per start: handleMessages at "none" | "select" | "blocked" (in ReadMessage on
                  \* wsm.conn) | "stale" (in ReadMessage on an earlier connection) | "exited"
    pingLoop,     \* per start: pingHandler at "none" | "waiting" | "exited"
    \* ---- services.MarketDataService ----
    running,      \* s.running
    streamDone,   \* per start: the streamCtx made by StartStreaming is cancelled
    refresher,    \* per start: updatePriceCache at "none" | "waiting" | "exited"
    flusher,      \* per start: persistMarketData at "none" | "waiting" | "exited"
    \* ---- history ----
    exitCause,    \* per start: why handleMessages returned
    nFrames,      \* frames read so far
    nValid,       \* well-formed frames of a known channel kind read so far
    nMalformed,   \* frames read so far that fail to decode
    invoked       \* per channel kind: number of invocations of its registered handler

sessVars == <<isRunning, conn, ctxDone, gen, readLoop, pingLoop, running,
              streamDone, refresher, flusher,
              exitCause, nFrames, nValid, nMalformed, invoked>>

VARIABLES
    \* ---- services.MarketDataService: the price cache ----
    mu,           \* s.mu: the writer holding the lock ("none" if free) and the number of readers
    symbols,      \* s.symbols
    priceCache,   \* s.priceCache: per symbol [present, price, ts]
    now,          \* the clock read by time.Now()
    th,           \* handleTickerUpdate: "idle" | "built" (priceData built, cache not yet written)
    thData,       \* the priceData built by handleTickerUpdate
    rf,           \* fetchAndCacheAllPrices: "waiting" | "fetched" | "locked"
    rfResp,       \* the tickers returned by GetTicker24hr
    rfTodo,       \* the tickers the loop has not visited yet
    rd,           \* GetPriceData / GetAllPrices: "idle" | "locked" | "copied"
    rdTodo,       \* symbols still to copy
    rdHalf,       \* the first field of the current symbol has been copied
    rdResult      \* the snapshot(s) copied so far

cacheVars == <<mu, symbols, priceCache, now, th, thData, rf, rfResp, rfTodo,
               rd, rdTodo, rdHalf, rdResult>>

VARIABLES
    \* ---- api.App.handleMarketDataWebSocket, per connection on /ws/market ----
    mh,           \* the handler: "idle" | "initial" | "read" | "writing" | "returned"
    msub,         \* its subscribe_symbol tasks: "none" | "waiting" | "writing" | "exited"
    mclosed       \* c.Close() has been called

mktVars == <<mh, msub, mclosed>>

VARIABLES
    \* ---- the subscription of the upstream session ----
    wsmSymbols,   \* wsm.symbols
    subscription  \* the streams the current connection was dialled with

subVars == <<wsmSymbols, subscription>>

VARIABLES
    \* ---- history of the persistence interface ----
    storeLog,     \* one record per run of storeCachedPricesToTiDB, in order
    fl            \* storeCachedPricesToTiDB, followed call by call: "idle", or "storing" by
                  \* the flusher of start `by`, with the keys still to visit, the records
                  \* passed to StorePrice so far, the symbols it failed for, and (history)
                  \* the cache as it was when the read lock was taken

flushVars == <<storeLog, fl>>

VARIABLES
    \* ---- the event handlers of services.MarketDataService ----
    storeCalls,   \* the calls the handlers made on the persistence interface, in order
    payloads,     \* per message id: the WSMessage marshalled by WSHub.Broadcast
    \* ---- history ----
    klineSeen     \* the candle events handed to handleKlineUpdate, in order

updVars == <<storeCalls, payloads, klineSeen>>

VARIABLES
    \* ---- a caller of GetAllPrices ----
    resultRef,    \* the map the caller holds: "none" | "fresh" (its own map) | "cache" (s.priceCache itself)
    resultMap,    \* the contents of the caller's own map
    \* ---- history ----
    expected      \* what the caller was given, with the caller's own changes applied

callerVars == <<resultRef, resultMap, expected>>

VARIABLES
    \* ---- package svc ----
    once,         \* sync.Once: its done flag and the caller holding its mutex (0: free)
    DB,           \* svc.DB: "nil" | "open"
    App,          \* svc.App: "nil" | "set"
    ipc,          \* per caller of Init: "idle" | "do" | "slow" | "open" | "migrate" | "build" |
                  \* "unlock" | "return" | "returned"
    initErr,      \* per caller: the local initErr, "nil" | "err"
    \* ---- history ----
    bodyRuns,     \* number of times the function passed to once.Do was entered
    initResult,   \* per caller: what Init returned, "none" before it returns
    observed      \* per caller: the globals as the caller finds them when Init returns

svcVars == <<once, DB, App, ipc, initErr, bodyRuns, initResult, observed>>

VARIABLES
    \* ---- api.Hub, the legacy hub ----
    legacyClients,   \* h.clients
    legacyRun,       \* Hub.run: [pc |-> "select"], or [pc |-> "sending", client |-> c] while it
                     \* is in `h.unregister <- client` inside the broadcast case
    legacyHandler,   \* handleLegacyWebSocket per connection: "idle" | "register" | "read" |
                     \* "unregister" | "returning" | "returned"
    legacyClosed,    \* per connection: Close() has been called
    legacyWritten,   \* per connection: the messages written to it, in order
    legacySenders,   \* the messages whose goroutine is in `a.hub.broadcast <- message`
    legacyNextId,    \* id of the next message of manualIngest
    \* ---- history ----
    legacyProcessed  \* per message received by Hub.run: the registry then and the failed writes

legVars == <<legacyClients, legacyRun, legacyHandler, legacyClosed, legacyWritten,
             legacySenders, legacyNextId, legacyProcessed>>

VARIABLES
    \* ---- history ----
    startErr      \* what the latest StartStreaming call returned, "none" before the first

ctlVars == <<startErr>>

hubVars == <<clients, broadcast, hubpc, sendq, sendClosed, connClosed, handler,
             rp, wp, written, nextId, enq, processed, regAt, fullAt>>

vars == <<hubVars, sessVars, cacheVars, mktVars, flushVars, subVars, updVars, callerVars,
          svcVars, legVars, ctlVars>>

\* what the hub, the session and the cache leave alone
nonHubVars == <<sessVars, cacheVars, mktVars, flushVars, subVars, updVars, callerVars, svcVars, legVars,
                  ctlVars>>
nonSessVars == <<hubVars, cacheVars, mktVars, flushVars, updVars, callerVars, svcVars, legVars,
                  ctlVars>>
nonCacheVars == <<hubVars, sessVars, mktVars, flushVars, subVars, updVars, callerVars, svcVars, legVars,
                  ctlVars>>
nonMktVars == <<hubVars, sessVars, cacheVars, flushVars, subVars, updVars, callerVars, svcVars, legVars,
                  ctlVars>>
nonFlushVars == <<hubVars, sessVars, cacheVars, mktVars, subVars, updVars, callerVars, svcVars, legVars,
                  ctlVars>>
nonSubVars == <<hubVars, sessVars, cacheVars, mktVars, flushVars, updVars, callerVars, svcVars, legVars,
                  ctlVars>>
\* what the event handlers leave alone besides the hub and the cache
nonUpdVars == <<sessVars, mktVars, flushVars, subVars, callerVars, svcVars, legVars,
                  ctlVars>>

Count(m, s) == Cardinality({i \in 1..Len(s) : s[i] = m})

(***************************************************************************)
(* NewWSHub and the state before any connection is accepted.               *)
(***************************************************************************)
HubInit ==
    /\ clients = {}
    /\ broadcast = <<>>
    /\ hubpc = "run"
    /\ sendq = [c \in Clients |-> <<>>]
    /\ sendClosed = [c \in Clients |-> FALSE]
    /\ connClosed = [c \in Clients |-> FALSE]
    /\ handler = [c \in Clients |-> "idle"]
    /\ rp = [c \in Clients |-> "none"]
    /\ wp = [c \in Clients |-> "none"]
    /\ written = [c \in Clients |-> <<>>]
    /\ nextId = 1
    /\ enq = [c \in Clients |-> <<>>]
    /\ processed = <<>>
    /\ regAt = <<>>
    /\ fullAt = <<>>

hubLoopVars == <<clients, hubpc, processed, regAt, fullAt>>
clientQueueVars == <<sendq, sendClosed, enq>>
pumpVars == <<rp, wp, written, connClosed>>

\* a Close that leaves the transport open
CloseConn_Noop(c) ==
    UNCHANGED connClosed

\* c.conn.Close(): idempotent
CloseConn(c) ==
    connClosed' = [connClosed EXCEPT ![c] = TRUE]

(***************************************************************************)
(* WSHub.Broadcast: marshal the message, then a blocking send on the       *)
(* buffered broadcast channel.  A marshal error drops the message.         *)
(***************************************************************************)
Broadcast(marshalOk) ==
    /\ nextId <= MaxMsgs
    /\ IF marshalOk
         THEN /\ Len(broadcast) < BroadcastCap
              /\ broadcast' = Append(broadcast, nextId)
              /\ nextId' = nextId + 1
         ELSE UNCHANGED <<broadcast, nextId>>
    /\ UNCHANGED <<hubLoopVars, clientQueueVars, pumpVars, handler>>
    /\ UNCHANGED nonHubVars

(***************************************************************************)
(* WSHub.HandleWebSocket                                                   *)
(***************************************************************************)
\* upgrader.Upgrade: on error the handler returns, otherwise the client is
\* created and the handler blocks sending it on the unbuffered h.register.
\* Connections are numbered in the order in which they are accepted.
HandleWebSocket(c, upgradeOk) ==
    /\ handler[c] = "idle"
    /\ \A d \in Clients : d < c => handler[d] # "idle"
    /\ handler' = [handler EXCEPT ![c] = IF upgradeOk THEN "registering" ELSE @]
    /\ UNCHANGED <<hubLoopVars, clientQueueVars, pumpVars, broadcast, nextId>>
    /\ UNCHANGED nonHubVars

\* go client.writePump(); go client.readPump()
StartPumps(c) ==
    /\ handler[c] = "spawn"
    /\ handler' = [handler EXCEPT ![c] = "done"]
    /\ rp' = [rp EXCEPT ![c] = "read"]
    /\ wp' = [wp EXCEPT ![c] = "select"]
    /\ UNCHANGED <<hubLoopVars, clientQueueVars, written, connClosed, broadcast, nextId>>
    /\ UNCHANGED nonHubVars

(***************************************************************************)
(* WSHub.Run: one case of the select per action.                           *)
(***************************************************************************)
\* case client := <-h.register: h.clients[client] = true
\* (rendezvous with the send in HandleWebSocket, which then goes on)
HubRegister(c) ==
    /\ hubpc = "run"
    /\ handler[c] = "registering"
    /\ handler' = [handler EXCEPT ![c] = "spawn"]
    /\ clients' = clients \cup {c}
    /\ UNCHANGED <<hubpc, processed, regAt, fullAt, clientQueueVars, pumpVars,
                   broadcast, nextId>>
    /\ UNCHANGED nonHubVars

\* the unregister case without its membership test
Registered_Unchecked(c) == TRUE

\* `if _, ok := h.clients[client]; ok`
Registered(c) == c \in clients

\* case client := <-h.unregister:
\*   if _, ok := h.clients[client]; ok { delete(h.clients, client); close(client.send) }
\* (rendezvous with the deferred send of readPump, which then goes on)
HubUnregister(c) ==
    /\ hubpc = "run"
    /\ rp[c] = "unregister"
    /\ rp' = [rp EXCEPT ![c] = "close"]
    /\ IF Registered(c)
         THEN /\ clients' = clients \ {c}
              /\ sendClosed' = [sendClosed EXCEPT ![c] = TRUE]
              /\ hubpc' = IF sendClosed[c] THEN "panic" ELSE "run"
         ELSE UNCHANGED <<clients, sendClosed, hubpc>>
    /\ UNCHANGED <<processed, regAt, fullAt, sendq, enq, wp, written, connClosed,
                   handler, broadcast, nextId>>
    /\ UNCHANGED nonHubVars

\* the send case of the inner select is ready: the buffer of c.send has room
SendReady(c) == Len(sendq[c]) < SendCap

\* the range loop stops before the last client of the registry
Visited_StopsEarly(reg) == {c \in reg : \E d \in reg : d > c}

\* the clients the range loop visits
Visited(reg) == reg

\* the visited clients that get the message: `case client.send <- message`
Delivered(reg) == {c \in Visited(reg) : SendReady(c)}

\* the visited clients that hit `default`: close(client.send); delete(h.clients, client)
Evicted(reg) == {c \in Visited(reg) : ~SendReady(c)}

\* the default case closes the channel but forgets delete(h.clients, client)
AfterFanout_NoDelete(reg) == reg

\* the registry after the range loop
AfterFanout(reg) == reg \ Evicted(reg)

\* a plain `client.send <- message` without the default case: the loop waits
\* until every registered client has room
FanoutEnabled_Blocking(reg) == \A c \in reg : SendReady(c)

\* the inner select has a default case, so no iteration ever waits
FanoutEnabled(reg) == TRUE

\* the channel after `client.send <- message`
ChanSend(q, m) == Append(q, m)

\* case message := <-h.broadcast:
\*   for client := range h.clients {
\*     select { case client.send <- message:
\*              default: close(client.send); delete(h.clients, client) } }
\* Each iteration touches only the visited client's channel and registry
\* entry, so the loop is one step.  A send on, or a close of, a closed
\* channel panics.
HubBroadcast ==
    /\ hubpc = "run"
    /\ broadcast # <<>>
    /\ FanoutEnabled(clients)
    /\ LET m == Head(broadcast) IN
         /\ broadcast' = Tail(broadcast)
         /\ processed' = Append(processed, m)
         /\ regAt' = Append(regAt, clients)
         /\ fullAt' = Append(fullAt, {c \in clients : Len(sendq[c]) >= SendCap})
         /\ sendq' = [c \in Clients |->
                        IF c \in Delivered(clients) THEN ChanSend(sendq[c], m) ELSE sendq[c]]
         /\ enq' = [c \in Clients |->
                        enq[c] \o SubSeq(sendq'[c], Len(sendq[c]) + 1, Len(sendq'[c]))]
         /\ sendClosed' = [c \in Clients |-> sendClosed[c] \/ c \in Evicted(clients)]
         /\ clients' = AfterFanout(clients)
         /\ hubpc' = IF \E c \in Visited(clients) : sendClosed[c] THEN "panic" ELSE "run"
    /\ UNCHANGED <<pumpVars, handler, nextId>>
    /\ UNCHANGED nonHubVars

(***************************************************************************)
(* WSClient.readPump                                                       *)
(***************************************************************************)
\* the deferred function closes the transport before it sends the unregister request
ConnAfterReadError_CloseFirst(c) == [connClosed EXCEPT ![c] = TRUE]

\* the transport when the read loop breaks: the deferred function first sends
\* the unregister request and closes the transport afterwards
ConnAfterReadError(c) == connClosed

\* the pump deletes its client from the registry itself
RegistryAfterReadError_Direct(c) == clients \ {c}

\* the registry when the read loop breaks: readPump only sends the client on
\* h.unregister, the map is left to the control loop
RegistryAfterReadError(c) == clients

\* c.conn.ReadMessage() returns an error (peer closed, deadline, or the
\* transport was closed locally); a successful read changes nothing
ReadPumpError(c) ==
    /\ rp[c] = "read"
    /\ rp' = [rp EXCEPT ![c] = "unregister"]
    /\ connClosed' = ConnAfterReadError(c)
    /\ clients' = RegistryAfterReadError(c)
    /\ UNCHANGED <<hubpc, processed, regAt, fullAt, clientQueueVars, wp, written,
                   handler, broadcast, nextId>>
    /\ UNCHANGED nonHubVars

\* deferred c.conn.Close() after the unregister request has been handed over
ReadPumpClose(c) ==
    /\ rp[c] = "close"
    /\ rp' = [rp EXCEPT ![c] = "done"]
    /\ CloseConn(c)
    /\ UNCHANGED <<hubLoopVars, clientQueueVars, wp, written, handler, broadcast, nextId>>
    /\ UNCHANGED nonHubVars

(***************************************************************************)
(* WSClient.writePump                                                      *)
(***************************************************************************)
\* the receive yields the newest element instead of the oldest
ChanRecv_Newest(q) == q[Len(q)]

\* the value `<-c.send` yields, and the channel afterwards
ChanRecv(q) == Head(q)
ChanRest(q) == Tail(q)

\* case message, ok := <-c.send with ok: WriteMessage(TextMessage, message);
\* on a write error return (deferred c.conn.Close()).  A write on a closed
\* transport always fails.
WritePumpMessage(c, writeOk) ==
    /\ wp[c] = "select"
    /\ sendq[c] # <<>>
    /\ sendq' = [sendq EXCEPT ![c] = ChanRest(@)]
    /\ IF writeOk /\ ~connClosed[c]
         THEN /\ written' = [written EXCEPT ![c] = Append(@, ChanRecv(sendq[c]))]
              /\ UNCHANGED <<wp, connClosed>>
         ELSE /\ wp' = [wp EXCEPT ![c] = "done"]
              /\ CloseConn(c)
              /\ UNCHANGED written
    /\ UNCHANGED <<hubLoopVars, sendClosed, enq, rp, handler, broadcast, nextId>>
    /\ UNCHANGED nonHubVars

\* case message, ok := <-c.send with !ok (closed and drained):
\* write the close message, return (deferred c.conn.Close())
WritePumpQueueClosed(c) ==
    /\ wp[c] = "select"
    /\ sendq[c] = <<>>
    /\ sendClosed[c]
    /\ wp' = [wp EXCEPT ![c] = "done"]
    /\ CloseConn(c)
    /\ UNCHANGED <<hubLoopVars, clientQueueVars, rp, written, handler, broadcast, nextId>>
    /\ UNCHANGED nonHubVars

\* case <-ticker.C: a failed ping write returns (deferred c.conn.Close());
\* a successful ping changes nothing
WritePumpPing(c, writeOk) ==
    /\ wp[c] = "select"
    /\ IF writeOk /\ ~connClosed[c]
         THEN UNCHANGED <<wp, connClosed>>
         ELSE /\ wp' = [wp EXCEPT ![c] = "done"]
              /\ CloseConn(c)
    /\ UNCHANGED <<hubLoopVars, clientQueueVars, rp, written, handler, broadcast, nextId>>
    /\ UNCHANGED nonHubVars

HubNext ==
    \/ \E ok \in BOOLEAN : Broadcast(ok)
    \/ \E c \in Clients, ok \in BOOLEAN : HandleWebSocket(c, ok)
    \/ \E c \in Clients : StartPumps(c)
    \/ \E c \in Clients : HubRegister(c)
    \/ \E c \in Clients : HubUnregister(c)
    \/ HubBroadcast
    \/ \E c \in Clients : ReadPumpError(c)
    \/ \E c \in Clients : ReadPumpClose(c)
    \/ \E c \in Clients, ok \in BOOLEAN : WritePumpMessage(c, ok)
    \/ \E c \in Clients : WritePumpQueueClosed(c)
    \/ \E c \in Clients, ok \in BOOLEAN : WritePumpPing(c, ok)

(***************************************************************************)
(* trader.BinanceWebSocketManager and the service facade that starts and   *)
(* stops it.                                                               *)
(***************************************************************************)
Kinds == {"ticker", "trade", "kline", "depth"}

\* the handlers MarketDataService registers at construction
DataHandlers == {"ticker", "trade", "depth", "kline"}

\* the part of a routing key after the "@", as the tokens strings.HasPrefix
\* compares: "ticker", "trade", "kline_1m", "depth20", "aggTrade", ""
StreamTypes == {<<"ticker">>, <<"trade">>, <<"kline", "_1m">>, <<"depth", "20">>,
                <<"agg", "Trade">>, <<>>}

\* an inbound frame: does the envelope decode as CombinedStreamResponse, how
\* many "@"-separated parts its stream name has, its stream type, and does
\* the payload decode as the event type of its channel kind
Frames == [envelopeOk : BOOLEAN, parts : 1..3, type : StreamTypes, payloadOk : BOOLEAN]

SessInit ==
    /\ isRunning = FALSE
    /\ conn = "nil"
    /\ ctxDone = FALSE
    /\ gen = 0
    /\ readLoop = [g \in Gens |-> "none"]
    /\ pingLoop = [g \in Gens |-> "none"]
    /\ running = FALSE
    /\ streamDone = [g \in Gens |-> FALSE]
    /\ refresher = [g \in Gens |-> "none"]
    /\ flusher = [g \in Gens |-> "none"]
    /\ exitCause = [g \in Gens |-> "none"]
    /\ wsmSymbols = InitialSymbols
    /\ subscription = {}
    /\ nFrames = 0
    /\ nValid = 0
    /\ nMalformed = 0
    /\ invoked = [k \in Kinds |-> 0]

frameVars == <<nFrames, nValid, nMalformed, invoked>>
loopVars == <<streamDone, refresher, flusher>>

HasPrefix(t, p) == Len(t) >= 1 /\ t[1] = p

\* a switch that compares the whole stream type with the channel kind
Route_ExactMatch(t) ==
    IF t = <<"ticker">> THEN "ticker"
    ELSE IF t = <<"trade">> THEN "trade"
    ELSE IF t = <<"kline">> THEN "kline"
    ELSE IF t = <<"depth">> THEN "depth"
    ELSE "unknown"

\* the switch of processMessage on the stream type
Route(t) ==
    IF HasPrefix(t, "ticker") THEN "ticker"
    ELSE IF HasPrefix(t, "trade") THEN "trade"
    ELSE IF HasPrefix(t, "kline") THEN "kline"
    ELSE IF HasPrefix(t, "depth") THEN "depth"
    ELSE "unknown"

\* a payload that does not decode still reaches the registered handler
HandleData_IgnoresDecodeError(kind, payloadOk) ==
    IF kind \in DataHandlers THEN kind ELSE "none"

\* handleTickerData / handleTradeData / handleKlineData / handleDepthData:
\* the handler invoked for a payload routed to `kind` ("none": no invocation)
HandleData(kind, payloadOk) ==
    IF ~payloadOk THEN "none"
    ELSE IF kind \in DataHandlers THEN kind
    ELSE "none"

\* processMessage: the handler invoked for a frame ("none": no invocation)
ProcessMessage(f) ==
    IF ~f.envelopeOk THEN "none"
    ELSE IF f.parts # 2 THEN "none"
    ELSE IF Route(f.type) = "unknown" THEN "none"
    ELSE HandleData(Route(f.type), f.payloadOk)

\* handleMessages after wsm.processMessage(message) returned: processMessage
\* returns nothing, the loop goes on to its next iteration
AfterProcess(h) == "select"

\* wsm.isRunning after handleMessages returned: the loop only closes the
\* transport (defer wsm.conn.Close()) and leaves the flag alone
RunningAfterLoopExit(cause) == isRunning

\* a frame as the claims classify it
Malformed(f) == ~f.envelopeOk \/ f.parts # 2 \/ ~f.payloadOk
KnownKind(f) == f.type \in {<<"ticker">>, <<"trade">>, <<"kline", "_1m">>, <<"depth", "20">>}
ValidFrame(f) == ~Malformed(f) /\ KnownKind(f)

\* strings.ToLower / strings.ToUpper / strings.EqualFold on instrument names
ToLower(sym) ==
    CASE sym \in {"BTCUSDT", "btcusdt"} -> "btcusdt"
      [] sym \in {"XRPUSDT", "xrpusdt"} -> "xrpusdt"
ToUpper(sym) ==
    CASE sym \in {"BTCUSDT", "btcusdt"} -> "BTCUSDT"
      [] sym \in {"XRPUSDT", "xrpusdt"} -> "XRPUSDT"
EqualFold(a, b) == ToLower(a) = ToLower(b)

\* the four streams subscribed per instrument
StreamSuffixes == {"ticker", "trade", "kline_1m", "depth20"}

\* buildCombinedStreams: "<lower-cased symbol>@<suffix>" for each symbol of
\* wsm.symbols and each of the four suffixes
BuildCombinedStreams(syms) ==
    {<<ToLower(sym), suffix>> : sym \in syms, suffix \in StreamSuffixes}

\* BinanceWebSocketManager.Start called by StartStreaming
\* (the `already running` check of wsm.Start, the new context, the dial)
WsStart(dialOk) ==
    IF isRunning
      THEN UNCHANGED <<isRunning, conn, ctxDone, gen, readLoop, pingLoop, exitCause, subVars>>
      ELSE /\ ctxDone' = FALSE
           /\ IF dialOk /\ gen < MaxStarts
                THEN /\ isRunning' = TRUE
                     /\ conn' = "open"
                     /\ subscription' = BuildCombinedStreams(wsmSymbols)
                     /\ gen' = gen + 1
                     \* wsm.conn = conn: a read pending on the earlier connection
                     \* (closed by then) stays on that connection
                     /\ readLoop' = [g \in Gens |->
                                       IF g = gen + 1 THEN "select"
                                       ELSE IF readLoop[g] = "blocked" THEN "stale"
                                       ELSE readLoop[g]]
                     /\ pingLoop' = [pingLoop EXCEPT ![gen + 1] = "waiting"]
                ELSE /\ isRunning' = FALSE
                     /\ UNCHANGED <<conn, gen, readLoop, pingLoop, subscription>>
           /\ UNCHANGED <<exitCause, wsmSymbols>>

\* BinanceWebSocketManager.AddSymbol: append the upper-cased symbol unless the
\* list has it already (compared without case); the connection is not touched
WsAddSymbol(sym) ==
    /\ wsmSymbols' = IF \E x \in wsmSymbols : EqualFold(x, sym)
                       THEN wsmSymbols
                       ELSE wsmSymbols \cup {ToUpper(sym)}
    /\ UNCHANGED subscription
    /\ UNCHANGED nonSubVars

\* Start reports success although the dial failed
WsStartOk_IgnoresDial(dialOk) == ~isRunning /\ gen < MaxStarts

\* whether wsm.Start returns nil
WsStartOk(dialOk) == ~isRunning /\ dialOk /\ gen < MaxStarts

\* a service that never refuses a start
AlreadyRunning_Never == FALSE

\* StartStreaming's first test: `if s.running { return fmt.Errorf(...) }`
AlreadyRunning == running

\* what StartStreaming returns
StartResult(dialOk) ==
    IF AlreadyRunning THEN "already running"
    ELSE IF WsStartOk(dialOk) THEN "nil"
    ELSE "failed to start WebSocket manager"

\* MarketDataService.StartStreaming
StartStreaming(dialOk) ==
    /\ startErr' = StartResult(dialOk)
    /\ IF AlreadyRunning
         THEN UNCHANGED <<sessVars, subVars>>
         ELSE /\ WsStart(dialOk)
              /\ running' = WsStartOk(dialOk)
              /\ IF WsStartOk(dialOk)
                   THEN \* go s.updatePriceCache(streamCtx); go s.persistMarketData(streamCtx)
                        /\ refresher' = [refresher EXCEPT ![gen + 1] = "waiting"]
                        /\ flusher' = [flusher EXCEPT ![gen + 1] = "waiting"]
                   ELSE UNCHANGED <<refresher, flusher>>
              /\ UNCHANGED <<streamDone, frameVars>>
    /\ UNCHANGED <<hubVars, cacheVars, mktVars, flushVars, updVars, callerVars, svcVars, legVars>>

\* a session Stop that leaves the session as it is
WsStop_KeepsRunning == UNCHANGED <<isRunning, conn, ctxDone>>

\* BinanceWebSocketManager.Stop
WsStop ==
    IF ~isRunning
      THEN UNCHANGED <<isRunning, conn, ctxDone>>
      ELSE /\ isRunning' = FALSE
           /\ ctxDone' = TRUE
           /\ conn' = IF conn = "nil" THEN "nil" ELSE "closed"

\* MarketDataService.Stop: s.wsManager.Stop(); s.cancel(); s.running = false
Stop ==
    /\ IF ~running
         THEN UNCHANGED <<isRunning, conn, ctxDone, streamDone, running>>
         ELSE /\ WsStop
              /\ streamDone' = [streamDone EXCEPT ![gen] = TRUE]
              /\ running' = FALSE
    /\ UNCHANGED <<gen, readLoop, pingLoop, refresher, flusher, exitCause, frameVars>>
    /\ UNCHANGED subVars
    /\ UNCHANGED nonSessVars

\* the context the caller passed to StartStreaming is cancelled (its deadline
\* passes, or the caller cancels it): streamCtx and wsm.ctx, derived from it,
\* are cancelled.  Nothing else runs.
ParentCancel ==
    /\ running
    /\ ~streamDone[gen]
    /\ streamDone' = [streamDone EXCEPT ![gen] = TRUE]
    /\ ctxDone' = TRUE
    /\ UNCHANGED <<isRunning, conn, gen, readLoop, pingLoop, running, refresher, flusher,
                   exitCause, frameVars>>
    /\ UNCHANGED subVars
    /\ UNCHANGED nonSessVars

\* a read loop that dials again when its read failed
ConnAfterLoopExit_Redial(g, cause) ==
    IF cause = "transport" THEN "open"
    ELSE IF g = gen THEN "closed"
    ELSE conn

\* wsm.conn after handleMessages returned: `defer wsm.conn.Close()` closes
\* the connection the loop was started with, and nothing dials
ConnAfterLoopExit(g, cause) ==
    IF g = gen THEN "closed" ELSE conn

\* handleMessages returns
LoopExit(g, cause) ==
    /\ readLoop' = [readLoop EXCEPT ![g] = "exited"]
    /\ exitCause' = [exitCause EXCEPT ![g] = cause]
    /\ conn' = ConnAfterLoopExit(g, cause)
    /\ isRunning' = RunningAfterLoopExit(cause)

\* handleMessages, the select: <-wsm.ctx.Done() returns, default goes on to
\* ReadMessage
ReadLoopSelect(g) ==
    /\ readLoop[g] = "select"
    /\ IF ctxDone
         THEN LoopExit(g, "cancelled")
         ELSE /\ readLoop' = [readLoop EXCEPT ![g] = "blocked"]
              /\ UNCHANGED <<exitCause, conn, isRunning>>
    /\ UNCHANGED <<ctxDone, gen, pingLoop, running, frameVars>>
    /\ UNCHANGED loopVars
    /\ UNCHANGED subVars
    /\ UNCHANGED nonSessVars

\* wsm.conn.ReadMessage() returns a frame: wsm.processMessage(message)
ReadFrame(g, f) ==
    /\ readLoop[g] = "blocked"
    /\ conn = "open"
    /\ nFrames < MaxFrames
    /\ nFrames' = nFrames + 1
    /\ nValid' = nValid + IF ValidFrame(f) THEN 1 ELSE 0
    /\ nMalformed' = nMalformed + IF Malformed(f) THEN 1 ELSE 0
    /\ LET h == ProcessMessage(f) IN
         /\ invoked' = IF h \in Kinds THEN [invoked EXCEPT ![h] = @ + 1] ELSE invoked
         /\ readLoop' = [readLoop EXCEPT ![g] = AfterProcess(h)]
    /\ UNCHANGED <<isRunning, conn, ctxDone, gen, pingLoop, running, exitCause>>
    /\ UNCHANGED loopVars
    /\ UNCHANGED subVars
    /\ UNCHANGED nonSessVars

\* wsm.conn.ReadMessage() returns an error: the peer closed or the transport
\* broke ("transport"), or the transport was closed on this side ("closed")
ReadError(g) ==
    /\ readLoop[g] \in {"blocked", "stale"}
    /\ LoopExit(g, IF readLoop[g] = "stale" \/ conn = "closed" THEN "closed" ELSE "transport")
    /\ UNCHANGED <<ctxDone, gen, pingLoop, running, frameVars>>
    /\ UNCHANGED loopVars
    /\ UNCHANGED subVars
    /\ UNCHANGED nonSessVars

\* pingHandler: <-wsm.ctx.Done() returns
PingCtxDone(g) ==
    /\ pingLoop[g] = "waiting"
    /\ ctxDone
    /\ pingLoop' = [pingLoop EXCEPT ![g] = "exited"]
    /\ UNCHANGED <<isRunning, conn, ctxDone, gen, readLoop, running, exitCause, frameVars>>
    /\ UNCHANGED loopVars
    /\ UNCHANGED subVars
    /\ UNCHANGED nonSessVars

\* a keepalive loop that logs a failed write and waits for the next tick
PingAfterWrite_Continues(writeOk) == "waiting"

\* pingHandler after WriteMessage(PingMessage): `if err != nil { return }`;
\* a write on a transport that is broken or closed always fails
PingAfterWrite(writeOk) == IF writeOk /\ conn = "open" THEN "waiting" ELSE "exited"

\* pingHandler: <-ticker.C, WriteMessage(PingMessage).  A write on an open
\* transport fails when the transport fails; the connection is not closed.
PingSend(g, writeOk) ==
    /\ pingLoop[g] = "waiting"
    /\ pingLoop' = [pingLoop EXCEPT ![g] = PingAfterWrite(writeOk)]
    /\ conn' = IF conn = "open" /\ ~writeOk THEN "broken" ELSE conn
    /\ UNCHANGED <<isRunning, ctxDone, gen, readLoop, running, exitCause, frameVars>>
    /\ UNCHANGED loopVars
    /\ UNCHANGED subVars
    /\ UNCHANGED nonSessVars

SessNext ==
    \/ \E ok \in BOOLEAN : StartStreaming(ok)
    \/ Stop
    \/ ParentCancel
    \/ \E g \in Gens : ReadLoopSelect(g)
    \/ \E g \in Gens, f \in Frames : ReadFrame(g, f)
    \/ \E g \in Gens : ReadError(g)
    \/ \E g \in Gens : PingCtxDone(g)
    \/ \E g \in Gens, ok \in BOOLEAN : PingSend(g, ok)

(***************************************************************************)
(* services.MarketDataService: the price cache, its writers and readers.   *)
(***************************************************************************)

\* price fields as they come on the wire: decimal strings, or garbage
PriceStrings == {"1", "x"}

\* strconv.ParseFloat with the error dropped: garbage parses to 0
ParseFloat(str) == IF str = "1" THEN 1 ELSE 0

\* the zero PriceData a lookup of a missing key yields
Absent == [present |-> FALSE, price |-> 0, ts |-> 0]

CacheInit ==
    /\ mu = [writer |-> "none", readers |-> 0]
    /\ symbols = InitialSymbols
    /\ priceCache = [s \in AllSymbols |-> Absent]
    /\ now = 0
    /\ th = "idle"
    /\ thData = [sym |-> "BTCUSDT", price |-> 0, ts |-> 0]
    /\ rf = "waiting"
    /\ rfResp = "x"
    /\ rfTodo = <<>>
    /\ rd = "idle"
    /\ rdTodo = <<>>
    /\ rdHalf = FALSE
    /\ rdResult = [s \in AllSymbols |-> Absent]

tickerVars == <<th, thData>>
refreshVars == <<rf, rfResp, rfTodo>>
readerVars == <<rd, rdTodo, rdHalf, rdResult>>

\* s.priceCache[sym] = value
Store(sym, value) ==
    priceCache' = [priceCache EXCEPT ![sym] = value]

\* the clock advances
Tick ==
    /\ now < MaxTime
    /\ now' = now + 1
    /\ UNCHANGED <<mu, symbols, priceCache, tickerVars, refreshVars, readerVars>>
    /\ UNCHANGED nonCacheVars

\* a lock that lets a writer in while readers hold it
LockAvailable_IgnoresReaders == mu.writer = "none"

\* s.mu.Lock() can proceed: no writer and no reader holds the lock
LockAvailable == mu.writer = "none" /\ mu.readers = 0

\* s.mu.RLock() can proceed: no writer holds the lock
RLockAvailable == mu.writer = "none"

\* handleTickerUpdate, up to the construction of priceData
\* (Timestamp: time.Now()), for a ticker event of symbol sym
TickerBuild(sym, lastPrice) ==
    /\ th = "idle"
    /\ th' = "built"
    /\ thData' = [sym |-> sym, price |-> ParseFloat(lastPrice), ts |-> now]
    /\ UNCHANGED <<mu, symbols, priceCache, now, refreshVars, readerVars>>
    /\ UNCHANGED nonCacheVars

\* handleTickerUpdate: s.mu.Lock(); s.priceCache[event.Symbol] = priceData; s.mu.Unlock()
TickerWrite ==
    /\ th = "built"
    /\ LockAvailable
    /\ Store(thData.sym,
             [present |-> TRUE, price |-> thData.price, ts |-> thData.ts])
    /\ th' = "idle"
    /\ UNCHANGED <<mu, symbols, now, thData, refreshVars, readerVars>>
    /\ UNCHANGED nonCacheVars

\* fetchAndCacheAllPrices: GetTicker24hr("") returns an error (return) or the
\* tickers of every instrument of the exchange
RefreshFetch(fetchOk, lastPrice) ==
    /\ rf = "waiting"
    /\ IF fetchOk
         THEN rf' = "fetched" /\ rfResp' = lastPrice
         ELSE UNCHANGED <<rf, rfResp>>
    /\ UNCHANGED <<mu, symbols, priceCache, now, tickerVars, rfTodo, readerVars>>
    /\ UNCHANGED nonCacheVars

\* fetchAndCacheAllPrices: s.mu.Lock(), held until the function returns
RefreshLock ==
    /\ rf = "fetched"
    /\ LockAvailable
    /\ mu' = [mu EXCEPT !.writer = "refresh"]
    /\ rf' = "locked"
    /\ rfTodo' = SymbolOrder
    /\ UNCHANGED <<symbols, priceCache, now, tickerVars, rfResp, readerVars>>
    /\ UNCHANGED nonCacheVars

\* the refresh caches every instrument of the response
IsTracked_Always(sym) == TRUE

\* "Only cache symbols we're tracking"
IsTracked(sym) == sym \in symbols

\* fetchAndCacheAllPrices: one iteration of `for _, ticker := range tickers`
RefreshWrite ==
    /\ rf = "locked"
    /\ rfTodo # <<>>
    /\ LET sym == Head(rfTodo) IN
         IF IsTracked(sym)
           THEN Store(sym, [present |-> TRUE, price |-> ParseFloat(rfResp), ts |-> now])
           ELSE UNCHANGED priceCache
    /\ rfTodo' = Tail(rfTodo)
    /\ UNCHANGED <<mu, symbols, now, tickerVars, rf, rfResp, readerVars>>
    /\ UNCHANGED nonCacheVars

\* fetchAndCacheAllPrices returns: deferred s.mu.Unlock()
RefreshUnlock ==
    /\ rf = "locked"
    /\ rfTodo = <<>>
    /\ mu' = [mu EXCEPT !.writer = "none"]
    /\ rf' = "waiting"
    /\ UNCHANGED <<symbols, priceCache, now, tickerVars, rfResp, rfTodo, readerVars>>
    /\ UNCHANGED nonCacheVars

\* MarketDataService.AddSymbol: under s.mu.Lock(), append unless present
AddSymbol(sym) ==
    /\ LockAvailable
    /\ symbols' = symbols \cup {sym}
    /\ UNCHANGED <<mu, priceCache, now, tickerVars, refreshVars, readerVars>>
    /\ UNCHANGED nonCacheVars

\* the symbols of a set in the fixed order
InOrder(S) == SelectSeq(SymbolOrder, LAMBDA x : x \in S)

\* GetPriceData(sym): s.mu.RLock()
GetPriceData(sym) ==
    /\ rd = "idle"
    /\ RLockAvailable
    /\ mu' = [mu EXCEPT !.readers = @ + 1]
    /\ rd' = "locked"
    /\ rdTodo' = <<sym>>
    /\ UNCHANGED <<symbols, priceCache, now, tickerVars, refreshVars, rdHalf, rdResult>>
    /\ UNCHANGED nonCacheVars

\* GetAllPrices(): s.mu.RLock(); the range loop visits the keys of the map
GetAllPrices ==
    /\ rd = "idle"
    /\ RLockAvailable
    /\ mu' = [mu EXCEPT !.readers = @ + 1]
    /\ rd' = "locked"
    /\ rdTodo' = InOrder({s \in AllSymbols : priceCache[s].present})
    /\ UNCHANGED <<symbols, priceCache, now, tickerVars, refreshVars, rdHalf, rdResult>>
    /\ UNCHANGED nonCacheVars

\* copying one PriceData out of the map is not one memory access: first the
\* lookup and the leading fields ...
ReaderCopyFirst ==
    /\ rd = "locked"
    /\ rdTodo # <<>>
    /\ ~rdHalf
    /\ LET s == Head(rdTodo) IN
         IF priceCache[s].present
           THEN /\ rdResult' = [rdResult EXCEPT ![s] =
                                  [present |-> TRUE, price |-> priceCache[s].price, ts |-> 0]]
                /\ rdHalf' = TRUE
                /\ UNCHANGED rdTodo
           ELSE /\ rdResult' = [rdResult EXCEPT ![s] = Absent]
                /\ rdTodo' = Tail(rdTodo)
                /\ UNCHANGED rdHalf
    /\ UNCHANGED <<mu, symbols, priceCache, now, tickerVars, refreshVars, rd>>
    /\ UNCHANGED nonCacheVars

\* ... then the trailing fields (Timestamp)
ReaderCopyRest ==
    /\ rd = "locked"
    /\ rdTodo # <<>>
    /\ rdHalf
    /\ LET s == Head(rdTodo) IN
         rdResult' = [rdResult EXCEPT ![s].ts = priceCache[s].ts]
    /\ rdHalf' = FALSE
    /\ rdTodo' = Tail(rdTodo)
    /\ UNCHANGED <<mu, symbols, priceCache, now, tickerVars, refreshVars, rd>>
    /\ UNCHANGED nonCacheVars

\* everything is copied: the result is complete, the lock still held
ReaderCopied ==
    /\ rd = "locked"
    /\ rdTodo = <<>>
    /\ rd' = "copied"
    /\ UNCHANGED <<mu, symbols, priceCache, now, tickerVars, refreshVars,
                   rdTodo, rdHalf, rdResult>>
    /\ UNCHANGED nonCacheVars

\* deferred s.mu.RUnlock(); the call returns its result
ReaderReturn ==
    /\ rd = "copied"
    /\ mu' = [mu EXCEPT !.readers = @ - 1]
    /\ rd' = "idle"
    /\ rdResult' = [s \in AllSymbols |-> Absent]
    /\ UNCHANGED <<symbols, priceCache, now, tickerVars, refreshVars, rdTodo, rdHalf>>
    /\ UNCHANGED nonCacheVars

CacheNext ==
    \/ Tick
    \/ \E sym \in AllSymbols, p \in PriceStrings : TickerBuild(sym, p)
    \/ TickerWrite
    \/ \E ok \in BOOLEAN, p \in PriceStrings : RefreshFetch(ok, p)
    \/ RefreshLock
    \/ RefreshWrite
    \/ RefreshUnlock
    \/ \E sym \in AllSymbols : AddSymbol(sym)
    \/ \E sym \in AllSymbols : GetPriceData(sym)
    \/ GetAllPrices
    \/ ReaderCopyFirst
    \/ ReaderCopyRest
    \/ ReaderCopied
    \/ ReaderReturn

(***************************************************************************)
(* api.App: the /ws/market endpoint.  setupRoutes mounts                   *)
(* handleMarketDataWebSocket on it; WSHub.HandleWebSocket is mounted on no *)
(* route.                                                                  *)
(***************************************************************************)
\* what c.ReadMessage() can yield in the handler's loop
Requests == {"error", "ping", "get_signals", "get_prices", "subscribe_symbol", "other"}

MktInit ==
    /\ mh = [e \in MarketConns |-> "idle"]
    /\ msub = [e \in MarketConns |-> [k \in Subs |-> "none"]]
    /\ mclosed = [e \in MarketConns |-> FALSE]

\* the handler returns: deferred c.Close()
MarketReturn(e) ==
    /\ mh' = [mh EXCEPT ![e] = "returned"]
    /\ mclosed' = [mclosed EXCEPT ![e] = TRUE]

\* websocket.New(a.handleMarketDataWebSocket): a connection is accepted and
\* the handler is entered.  Connections are numbered in the order of arrival.
MarketAccept(e) ==
    /\ mh[e] = "idle"
    /\ \A d \in MarketConns : d < e => mh[d] # "idle"
    /\ mh' = [mh EXCEPT ![e] = "initial"]
    /\ UNCHANGED <<msub, mclosed>>
    /\ UNCHANGED nonMktVars

\* "Send initial market data": if the service is running and has data, one
\* WriteJSON; on its error the handler returns.  No other task of the
\* connection exists yet.
MarketInitialData(e, send, writeOk) ==
    /\ mh[e] = "initial"
    /\ IF send /\ ~writeOk
         THEN MarketReturn(e)
         ELSE mh' = [mh EXCEPT ![e] = "read"] /\ UNCHANGED mclosed
    /\ UNCHANGED msub
    /\ UNCHANGED nonMktVars

\* the first subscribe task of the connection not yet launched (0: none left)
FreeSub(e) ==
    IF \E k \in Subs : msub[e][k] = "none"
      THEN CHOOSE k \in Subs : msub[e][k] = "none" /\ \A j \in Subs : j < k => msub[e][j] # "none"
      ELSE 0

\* one iteration of the read loop: c.ReadMessage() and the dispatch on it
MarketRead(e, req) ==
    /\ mh[e] = "read"
    /\ CASE req = "error" ->
              MarketReturn(e) /\ UNCHANGED msub
         [] req \in {"ping", "get_signals", "get_prices"} ->
              \* c.WriteMessage(PongMessage) / c.WriteJSON(...) begins
              mh' = [mh EXCEPT ![e] = "writing"] /\ UNCHANGED <<msub, mclosed>>
         [] req = "subscribe_symbol" ->
              \* go func() { for range ticker.C { ... c.WriteJSON(...) } }()
              /\ FreeSub(e) # 0
              /\ msub' = [msub EXCEPT ![e][FreeSub(e)] = "waiting"]
              /\ UNCHANGED <<mh, mclosed>>
         [] OTHER ->
              UNCHANGED mktVars
    /\ UNCHANGED nonMktVars

\* the handler's write ends: on success the loop goes on, on an error the
\* handler returns
MarketWriteEnd(e, writeOk) ==
    /\ mh[e] = "writing"
    /\ IF writeOk /\ ~mclosed[e]
         THEN mh' = [mh EXCEPT ![e] = "read"] /\ UNCHANGED mclosed
         ELSE MarketReturn(e)
    /\ UNCHANGED msub
    /\ UNCHANGED nonMktVars

\* a subscribe task: its 5-second ticker fires, c.WriteJSON(...) begins
SubWriteBegin(e, k) ==
    /\ msub[e][k] = "waiting"
    /\ msub' = [msub EXCEPT ![e][k] = "writing"]
    /\ UNCHANGED <<mh, mclosed>>
    /\ UNCHANGED nonMktVars

\* a subscribe task: its write ends; it returns on an error and otherwise
\* waits for the next tick
SubWriteEnd(e, k, writeOk) ==
    /\ msub[e][k] = "writing"
    /\ msub' = [msub EXCEPT ![e][k] = IF writeOk /\ ~mclosed[e] THEN "waiting" ELSE "exited"]
    /\ UNCHANGED <<mh, mclosed>>
    /\ UNCHANGED nonMktVars

\* the endpoint, together with the publishing side of the hub that the
\* application runs (go wsHub.Run() in New)
EndpointNext ==
    \/ \E e \in MarketConns : MarketAccept(e)
    \/ \E e \in MarketConns, send \in BOOLEAN, ok \in BOOLEAN : MarketInitialData(e, send, ok)
    \/ \E e \in MarketConns, req \in Requests : MarketRead(e, req)
    \/ \E e \in MarketConns, ok \in BOOLEAN : MarketWriteEnd(e, ok)
    \/ \E e \in MarketConns, k \in Subs : SubWriteBegin(e, k)
    \/ \E e \in MarketConns, k \in Subs, ok \in BOOLEAN : SubWriteEnd(e, k, ok)
    \/ \E ok \in BOOLEAN : Broadcast(ok)
    \/ HubBroadcast

(***************************************************************************)
(* services.MarketDataService: the background loops StartStreaming         *)
(* launches, and the persistence flusher.                                  *)
(***************************************************************************)
NoFlush ==
    [pc |-> "idle", by |-> 0, todo |-> <<>>, calls |-> <<>>, failed |-> {},
     at |-> [s \in AllSymbols |-> Absent]]

FlushInit ==
    /\ storeLog = <<>>
    /\ fl = NoFlush

\* the loops select on the context of the session (wsm.ctx), which the next
\* start replaces
LoopCtxDone_SessionCtx(g) == ctxDone

\* the context the loops of start g select on: the streamCtx they were given
LoopCtxDone(g) == streamDone[g]

\* updatePriceCache: case <-ctx.Done(): return
RefresherCtxDone(g) ==
    /\ refresher[g] = "waiting"
    /\ LoopCtxDone(g)
    /\ refresher' = [refresher EXCEPT ![g] = "exited"]
    /\ UNCHANGED <<isRunning, conn, ctxDone, gen, readLoop, pingLoop, running,
                   streamDone, flusher, exitCause, frameVars>>
    /\ UNCHANGED subVars
    /\ UNCHANGED nonSessVars

\* persistMarketData: case <-ctx.Done(): return
FlusherCtxDone(g) ==
    /\ flusher[g] = "waiting"
    /\ LoopCtxDone(g)
    /\ flusher' = [flusher EXCEPT ![g] = "exited"]
    /\ UNCHANGED <<isRunning, conn, ctxDone, gen, readLoop, pingLoop, running,
                   streamDone, refresher, exitCause, frameVars>>
    /\ UNCHANGED subVars
    /\ UNCHANGED nonSessVars

\* the keys of s.priceCache
Cached == {sym \in AllSymbols : priceCache[sym].present}

\* the orders in which `for symbol, priceData := range s.priceCache` can
\* visit the keys (the iteration order of a map is not specified)
Orders(S) ==
    {q \in [1..Cardinality(S) -> S] : \A i, j \in 1..Cardinality(S) : q[i] = q[j] => i = j}

\* the record is stamped with the time of the flush (Timestamp: time.Now())
MarketPrice_Now(sym) ==
    [symbol |-> sym, price |-> priceCache[sym].price, ts |-> now]

\* the db.MarketPrice built for a cached symbol: its fields are those of
\* the cached PriceData, Timestamp included
MarketPrice(sym) ==
    [symbol |-> sym, price |-> priceCache[sym].price, ts |-> priceCache[sym].ts]

\* the loop returns at the first StorePrice error
Visits_AbortOnError(order, fails) ==
    IF \E i \in 1..Len(order) : order[i] \in fails
      THEN SubSeq(order, 1, CHOOSE i \in 1..Len(order) :
                               order[i] \in fails /\ \A j \in 1..(i - 1) : order[j] \notin fails)
      ELSE order

\* the symbols for which StorePrice is called when it fails for `fails`:
\* an error is logged and the loop goes on
Visits(order, fails) == order

\* persistMarketData: case <-ticker.C: s.storeCachedPricesToTiDB().
\* The whole run holds s.mu.RLock(), so no cache write falls inside it.
FlusherTick(g, order, fails) ==
    /\ flusher[g] = "waiting"
    /\ Len(storeLog) < MaxFlushes
    /\ RLockAvailable
    /\ order \in Orders(Cached)
    /\ fails \subseteq Cached
    /\ LET visits == Visits(order, fails) IN
         storeLog' = Append(storeLog,
                        [by     |-> g,
                         cache  |-> priceCache,
                         calls  |-> [i \in 1..Len(visits) |-> MarketPrice(visits[i])],
                         failed |-> {visits[i] : i \in 1..Len(visits)} \cap fails])
    /\ UNCHANGED fl
    /\ UNCHANGED nonFlushVars

\* storeCachedPricesToTiDB call by call.  s.mu.RLock(), and the range loop
\* starts on the keys of s.priceCache
FlushLock(g, order) ==
    /\ flusher[g] = "waiting"
    /\ fl.pc = "idle"
    /\ Len(storeLog) < MaxFlushes
    /\ RLockAvailable
    /\ order \in Orders(Cached)
    /\ mu' = [mu EXCEPT !.readers = @ + 1]
    /\ fl' = [pc |-> "storing", by |-> g, todo |-> order, calls |-> <<>>, failed |-> {},
              at |-> priceCache]
    /\ UNCHANGED <<symbols, priceCache, now, tickerVars, refreshVars, readerVars>>
    /\ UNCHANGED storeLog
    /\ UNCHANGED <<hubVars, sessVars, mktVars, subVars, updVars, callerVars, svcVars, legVars,
                   ctlVars>>

\* one iteration of the loop: the record is built from the map entry and
\* passed to StorePrice; the read lock stays held
FlushStore(storeOk) ==
    /\ fl.pc = "storing"
    /\ fl.todo # <<>>
    /\ fl' = [fl EXCEPT !.todo = Tail(@),
                        !.calls = Append(@, MarketPrice(Head(fl.todo))),
                        !.failed = IF storeOk THEN @ ELSE @ \cup {Head(fl.todo)}]
    /\ UNCHANGED storeLog
    /\ UNCHANGED nonFlushVars

\* the loop is over: the deferred s.mu.RUnlock()
FlushUnlock ==
    /\ fl.pc = "storing"
    /\ fl.todo = <<>>
    /\ mu' = [mu EXCEPT !.readers = @ - 1]
    /\ storeLog' = Append(storeLog,
                          [by |-> fl.by, cache |-> fl.at, calls |-> fl.calls, failed |-> fl.failed])
    /\ fl' = NoFlush
    /\ UNCHANGED <<symbols, priceCache, now, tickerVars, refreshVars, readerVars>>
    /\ UNCHANGED <<hubVars, sessVars, mktVars, subVars, updVars, callerVars, svcVars, legVars,
                   ctlVars>>

\* the service facade and every loop it launches
LifecycleNext ==
    \/ \E ok \in BOOLEAN : StartStreaming(ok)
    \/ Stop
    \/ ParentCancel
    \/ \E g \in Gens : ReadLoopSelect(g)
    \/ \E g \in Gens : ReadError(g)
    \/ \E g \in Gens : PingCtxDone(g)
    \/ \E g \in Gens, ok \in BOOLEAN : PingSend(g, ok)
    \/ \E g \in Gens : RefresherCtxDone(g)
    \/ \E g \in Gens : FlusherCtxDone(g)
    \/ \E g \in Gens, order \in Orders(Cached), fails \in SUBSET Cached : FlusherTick(g, order, fails)

\* the service facade, its loops (without their periodic work) and the two
\* lists of instruments
SubscriptionNext ==
    \/ \E ok \in BOOLEAN : StartStreaming(ok)
    \/ Stop
    \/ ParentCancel
    \/ \E sym \in AllSymbols : AddSymbol(sym)
    \/ \E sym \in AllSymbols : WsAddSymbol(sym)
    \/ \E g \in Gens : ReadLoopSelect(g)
    \/ \E g \in Gens : ReadError(g)
    \/ \E g \in Gens : PingCtxDone(g)
    \/ \E g \in Gens, ok \in BOOLEAN : PingSend(g, ok)
    \/ \E g \in Gens : RefresherCtxDone(g)
    \/ \E g \in Gens : FlusherCtxDone(g)

\* the flusher, the cache it reads and the ticker handler that fills it
FlushNext ==
    \/ \E ok \in BOOLEAN : StartStreaming(ok)
    \/ \E g \in Gens, order \in Orders(Cached), fails \in SUBSET Cached : FlusherTick(g, order, fails)
    \/ Tick
    \/ \E sym \in AllSymbols, p \in PriceStrings : TickerBuild(sym, p)
    \/ TickerWrite

\* a flush followed call by call, next to the ticker handler and the clock
SnapshotNext ==
    \/ \E ok \in BOOLEAN : StartStreaming(ok)
    \/ \E g \in Gens, order \in Orders(Cached) : FlushLock(g, order)
    \/ \E ok \in BOOLEAN : FlushStore(ok)
    \/ FlushUnlock
    \/ Tick
    \/ \E sym \in AllSymbols, p \in PriceStrings : TickerBuild(sym, p)
    \/ TickerWrite

(***************************************************************************)
(* services.MarketDataService: the handlers registered with the upstream   *)
(* session.  They run one at a time, on the goroutine of the read loop.    *)
(* Each one is a single step here: its persistence call, then the blocking *)
(* send of WSHub.Broadcast.                                                *)
(***************************************************************************)
\* the slot of a message id nothing was marshalled for
NoMessage == [type |-> "none", data |-> [type |-> "none"]]

UpdInit ==
    /\ storeCalls = <<>>
    /\ payloads = [id \in 1..MaxMsgs |-> NoMessage]
    /\ klineSeen = <<>>

\* trader.WSMessage{Type: messageType, Data: data}
WSMessage(messageType, data) == [type |-> messageType, data |-> data]

\* services.MarketUpdate{Type, Symbol, Data, Timestamp: time.Now()}
MarketUpdate(type, sym, data) ==
    [type |-> type, symbol |-> sym, data |-> data, timestamp |-> now]

\* s.wsHub.Broadcast(messageType, data): marshal, then h.broadcast <- jsonData;
\* a marshal error drops the message
HubSend(messageType, data, marshalOk) ==
    /\ nextId <= MaxMsgs
    /\ IF marshalOk
         THEN /\ Len(broadcast) < BroadcastCap
              /\ broadcast' = Append(broadcast, nextId)
              /\ nextId' = nextId + 1
              /\ payloads' = [payloads EXCEPT ![nextId] = WSMessage(messageType, data)]
         ELSE UNCHANGED <<broadcast, nextId, payloads>>
    /\ UNCHANGED <<hubLoopVars, clientQueueVars, pumpVars, handler>>

\* a call on the persistence interface; its error is logged by the caller
StoreCall(name, sym, key, storeOk) ==
    /\ Len(storeCalls) < MaxStores
    /\ storeCalls' = Append(storeCalls, [call |-> name, symbol |-> sym, key |-> key, ok |-> storeOk])

\* a handler that returns when its store call failed
AfterStore_ReturnOnError(storeOk) == IF storeOk THEN "broadcast" ELSE "return"

\* a handler after its store call: `if err != nil { log.Printf(...) }`, and
\* it goes on to its Broadcast call
AfterStore(storeOk) == "broadcast"

\* the rest of a handler after its store call
Publish(storeOk, messageType, data, marshalOk) ==
    IF AfterStore(storeOk) = "broadcast"
      THEN HubSend(messageType, data, marshalOk)
      ELSE UNCHANGED <<hubVars, payloads>>

\* a handler that keeps the last event of a symbol in the cache
CacheAfterEvent_Retains(kind, sym) ==
    [priceCache EXCEPT ![sym] = [present |-> TRUE, price |-> 0, ts |-> now]]

\* s.priceCache after handleTradeUpdate, handleDepthUpdate or
\* handleKlineUpdate: none of them touches it
CacheAfterEvent(kind, sym) == priceCache

\* handleTickerUpdate in one step: cache write, StorePrice, Broadcast.  The
\* marshalled PriceData holds floats (a NaN makes json.Marshal fail).
HandleTickerUpdate(sym, lastPrice, storeOk, marshalOk) ==
    /\ th = "idle"
    /\ LockAvailable
    /\ LET priceData == [present |-> TRUE, price |-> ParseFloat(lastPrice), ts |-> now] IN
         /\ Store(sym, priceData)
         /\ StoreCall("StorePrice", sym, 0, storeOk)
         /\ Publish(storeOk, "market_update", MarketUpdate("ticker", sym, priceData), marshalOk)
    /\ UNCHANGED <<mu, symbols, now, tickerVars, refreshVars, readerVars, klineSeen>>
    /\ UNCHANGED nonUpdVars

\* handleTradeUpdate: StoreTradeData, Broadcast
HandleTradeUpdate(sym, storeOk) ==
    /\ StoreCall("StoreTradeData", sym, 0, storeOk)
    /\ Publish(storeOk, "market_update", MarketUpdate("trade", sym, [event |-> "trade"]), TRUE)
    /\ priceCache' = CacheAfterEvent("trade", sym)
    /\ UNCHANGED <<mu, symbols, now, tickerVars, refreshVars, readerVars, klineSeen>>
    /\ UNCHANGED nonUpdVars

\* handleDepthUpdate: StoreOrderBookData, Broadcast
HandleDepthUpdate(sym, storeOk) ==
    /\ StoreCall("StoreOrderBookData", sym, 0, storeOk)
    /\ Publish(storeOk, "market_update", MarketUpdate("depth", sym, [event |-> "depth"]), TRUE)
    /\ priceCache' = CacheAfterEvent("depth", sym)
    /\ UNCHANGED <<mu, symbols, now, tickerVars, refreshVars, readerVars, klineSeen>>
    /\ UNCHANGED nonUpdVars

\* every candle update is processed, closed or not
ProcessKline_Always(isClosed) == TRUE

\* handleKlineUpdate: `if !event.Kline.IsClosed { return }`
ProcessKline(isClosed) == isClosed

\* handleKlineUpdate for a candle of sym with open time openTime:
\* an update that is not processed returns at once; otherwise StoreKlineData,
\* then Broadcast
HandleKlineUpdate(sym, openTime, isClosed, storeOk) ==
    /\ Len(klineSeen) < MaxKlines
    /\ klineSeen' = Append(klineSeen, [symbol |-> sym, openTime |-> openTime, closed |-> isClosed])
    /\ IF ProcessKline(isClosed)
         THEN /\ StoreCall("StoreKlineData", sym, openTime, storeOk)
              /\ Publish(storeOk, "market_update",
                         MarketUpdate("kline", sym,
                                      [event |-> "kline", openTime |-> openTime, closed |-> isClosed]),
                         TRUE)
         ELSE UNCHANGED <<storeCalls, payloads, hubVars>>
    /\ priceCache' = CacheAfterEvent("kline", sym)
    /\ UNCHANGED <<mu, symbols, now, tickerVars, refreshVars, readerVars>>
    /\ UNCHANGED nonUpdVars

\* the handlers, the control loop of the hub and the downstream connections
\* registering with it
UpdateNext ==
    \/ \E sym \in AllSymbols, p \in PriceStrings, sok \in BOOLEAN, mok \in BOOLEAN :
           HandleTickerUpdate(sym, p, sok, mok)
    \/ \E sym \in AllSymbols, sok \in BOOLEAN : HandleTradeUpdate(sym, sok)
    \/ \E sym \in AllSymbols, sok \in BOOLEAN : HandleDepthUpdate(sym, sok)
    \/ \E sym \in AllSymbols, t \in OpenTimes, closed \in BOOLEAN, sok \in BOOLEAN :
           HandleKlineUpdate(sym, t, closed, sok)
    \/ \E c \in Clients, ok \in BOOLEAN : HandleWebSocket(c, ok)
    \/ \E c \in Clients : HubRegister(c)
    \/ HubBroadcast

(***************************************************************************)
(* A caller of GetAllPrices that keeps the returned map and changes it.    *)
(* A Go map is a reference: the caller sees the contents of the map its    *)
(* reference points to.                                                    *)
(***************************************************************************)
CallerInit ==
    /\ resultRef = "none"
    /\ resultMap = [s \in AllSymbols |-> Absent]
    /\ expected = [s \in AllSymbols |-> Absent]

\* the values a caller may put into the map (Absent: delete the key)
CallerValues ==
    {Absent} \cup {[present |-> TRUE, price |-> p, ts |-> t] : p \in {0, 1}, t \in Times}

\* `return s.priceCache`: the caller gets the map of the cache
Result_CacheMap == "cache"

\* `result := make(map[string]PriceData)`: the caller gets a map of its own
Result == "fresh"

\* the contents of the map the caller holds
Returned == IF resultRef = "cache" THEN priceCache ELSE resultMap

\* GetAllPrices as one step (the read lock is held from the first copy to the
\* return): every entry is copied by value into the result
GetAllPricesCall ==
    /\ RLockAvailable
    /\ resultRef' = Result
    /\ resultMap' = priceCache
    /\ expected' = priceCache
    /\ UNCHANGED <<hubVars, sessVars, cacheVars, mktVars, flushVars, subVars, updVars, svcVars,
                   legVars, ctlVars>>

\* the caller adds, replaces or deletes an entry of the map it holds
CallerWrite(sym, value) ==
    /\ resultRef # "none"
    /\ expected[sym] # value
    /\ expected' = [expected EXCEPT ![sym] = value]
    /\ IF resultRef = "cache"
         THEN /\ Store(sym, value)
              /\ UNCHANGED resultMap
         ELSE /\ resultMap' = [resultMap EXCEPT ![sym] = value]
              /\ UNCHANGED priceCache
    /\ UNCHANGED <<mu, symbols, now, tickerVars, refreshVars, readerVars, resultRef>>
    /\ UNCHANGED <<hubVars, sessVars, mktVars, flushVars, subVars, updVars, svcVars, legVars,
                   ctlVars>>

\* the cache writer, the clock and the caller
CallerNext ==
    \/ Tick
    \/ \E sym \in AllSymbols, p \in PriceStrings : TickerBuild(sym, p)
    \/ TickerWrite
    \/ GetAllPricesCall
    \/ \E sym \in AllSymbols, v \in CallerValues : CallerWrite(sym, v)

(***************************************************************************)
(* svc.Init: the one-time initialization of the service globals, guarded   *)
(* by a sync.Once.                                                         *)
(***************************************************************************)
nonSvcVars == <<hubVars, sessVars, cacheVars, mktVars, flushVars, subVars, updVars, callerVars,
                legVars, ctlVars>>

SvcInit ==
    /\ once = [done |-> FALSE, owner |-> 0]
    /\ DB = "nil"
    /\ App = "nil"
    /\ ipc = [p \in Callers |-> "idle"]
    /\ initErr = [p \in Callers |-> "nil"]
    /\ bodyRuns = 0
    /\ initResult = [p \in Callers |-> "none"]
    /\ observed = [p \in Callers |-> [db |-> "none", app |-> "none"]]

\* Init is called: var initErr error; once.Do(...)
InitCall(p) ==
    /\ ipc[p] = "idle"
    /\ ipc' = [ipc EXCEPT ![p] = "do"]
    /\ initErr' = [initErr EXCEPT ![p] = "nil"]
    /\ UNCHANGED <<once, DB, App, bodyRuns, initResult, observed>>
    /\ UNCHANGED nonSvcVars

\* once.Do: the done flag is loaded; set, Do returns at once; clear, the
\* caller goes on to take the mutex of the Once
DoLoad(p) ==
    /\ ipc[p] = "do"
    /\ ipc' = [ipc EXCEPT ![p] = IF once.done THEN "return" ELSE "slow"]
    /\ UNCHANGED <<once, DB, App, initErr, bodyRuns, initResult, observed>>
    /\ UNCHANGED nonSvcVars

\* a Once that marks itself done before the function has run
DoneAtBodyStart_Early == TRUE

\* the done flag while the function runs: it is set when the function has
\* returned
DoneAtBodyStart == FALSE

\* once.Do: the mutex is taken; the function runs unless the flag was set
\* in the meantime
DoLock(p) ==
    /\ ipc[p] = "slow"
    /\ once.owner = 0
    /\ IF once.done
         THEN /\ once' = [once EXCEPT !.owner = p]
              /\ ipc' = [ipc EXCEPT ![p] = "unlock"]
         ELSE /\ once' = [done |-> DoneAtBodyStart, owner |-> p]
              /\ ipc' = [ipc EXCEPT ![p] = "open"]
    /\ UNCHANGED <<DB, App, initErr, bodyRuns, initResult, observed>>
    /\ UNCHANGED nonSvcVars

\* the function: DB, err = db.Open(cfg.DBDSN); on error initErr = err; return
BodyOpen(p, ok) ==
    /\ ipc[p] = "open"
    /\ bodyRuns' = bodyRuns + 1
    /\ DB' = IF ok THEN "open" ELSE "nil"
    /\ initErr' = [initErr EXCEPT ![p] = IF ok THEN @ ELSE "err"]
    /\ ipc' = [ipc EXCEPT ![p] = IF ok THEN "migrate" ELSE "unlock"]
    /\ UNCHANGED <<once, App, initResult, observed>>
    /\ UNCHANGED nonSvcVars

\* the function: db.AutoMigrate(DB); on error initErr = err; return
BodyMigrate(p, ok) ==
    /\ ipc[p] = "migrate"
    /\ initErr' = [initErr EXCEPT ![p] = IF ok THEN @ ELSE "err"]
    /\ ipc' = [ipc EXCEPT ![p] = IF ok THEN "build" ELSE "unlock"]
    /\ UNCHANGED <<once, DB, App, bodyRuns, initResult, observed>>
    /\ UNCHANGED nonSvcVars

\* the function: KClient, BinanceClient and App are built
BodyBuild(p) ==
    /\ ipc[p] = "build"
    /\ App' = "set"
    /\ ipc' = [ipc EXCEPT ![p] = "unlock"]
    /\ UNCHANGED <<once, DB, initErr, bodyRuns, initResult, observed>>
    /\ UNCHANGED nonSvcVars

\* once.Do returns: the flag is set, the mutex released
DoUnlock(p) ==
    /\ ipc[p] = "unlock"
    /\ once' = [done |-> TRUE, owner |-> 0]
    /\ ipc' = [ipc EXCEPT ![p] = "return"]
    /\ UNCHANGED <<DB, App, initErr, bodyRuns, initResult, observed>>
    /\ UNCHANGED nonSvcVars

\* return initErr; the caller goes on to use the globals
InitReturn(p) ==
    /\ ipc[p] = "return"
    /\ ipc' = [ipc EXCEPT ![p] = "returned"]
    /\ initResult' = [initResult EXCEPT ![p] = initErr[p]]
    /\ observed' = [observed EXCEPT ![p] = [db |-> DB, app |-> App]]
    /\ UNCHANGED <<once, DB, App, initErr, bodyRuns>>
    /\ UNCHANGED nonSvcVars

\* the steps of one caller
InitStep(p) ==
    \/ InitCall(p)
    \/ DoLoad(p)
    \/ DoLock(p)
    \/ \E ok \in BOOLEAN : BodyOpen(p, ok)
    \/ \E ok \in BOOLEAN : BodyMigrate(p, ok)
    \/ BodyBuild(p)
    \/ DoUnlock(p)
    \/ InitReturn(p)

SvcNext == \E p \in Callers : InitStep(p)

(***************************************************************************)
(* api.Hub: the legacy hub behind /ws and /ingest/manual.  Its three       *)
(* channels are unbuffered and Hub.run is their only receiver.             *)
(***************************************************************************)
nonLegVars == <<hubVars, sessVars, cacheVars, mktVars, flushVars, subVars, updVars, callerVars,
                svcVars, ctlVars>>

LegacyInit ==
    /\ legacyClients = {}
    /\ legacyRun = [pc |-> "select", client |-> 0]
    /\ legacyHandler = [c \in LegacyConns |-> "idle"]
    /\ legacyClosed = [c \in LegacyConns |-> FALSE]
    /\ legacyWritten = [c \in LegacyConns |-> <<>>]
    /\ legacySenders = {}
    /\ legacyNextId = 1
    /\ legacyProcessed = <<>>

\* manualIngest: the goroutine reaches `a.hub.broadcast <- message`
ManualIngest ==
    /\ legacyNextId <= MaxLegacyMsgs
    /\ legacySenders' = legacySenders \cup {legacyNextId}
    /\ legacyNextId' = legacyNextId + 1
    /\ UNCHANGED <<legacyClients, legacyRun, legacyHandler, legacyClosed, legacyWritten,
                   legacyProcessed>>
    /\ UNCHANGED nonLegVars

\* handleLegacyWebSocket is entered: it reaches `a.hub.register <- c`
LegacyAccept(c) ==
    /\ legacyHandler[c] = "idle"
    /\ legacyHandler' = [legacyHandler EXCEPT ![c] = "register"]
    /\ UNCHANGED <<legacyClients, legacyRun, legacyClosed, legacyWritten, legacySenders,
                   legacyNextId, legacyProcessed>>
    /\ UNCHANGED nonLegVars

\* Hub.run, case client := <-h.register (rendezvous with the handler, which
\* goes on to its read loop)
LegacyRegister(c) ==
    /\ legacyRun.pc = "select"
    /\ legacyHandler[c] = "register"
    /\ legacyClients' = legacyClients \cup {c}
    /\ legacyHandler' = [legacyHandler EXCEPT ![c] = "read"]
    /\ UNCHANGED <<legacyRun, legacyClosed, legacyWritten, legacySenders, legacyNextId,
                   legacyProcessed>>
    /\ UNCHANGED nonLegVars

\* handleLegacyWebSocket: c.ReadMessage() returns an error; it reaches
\* `a.hub.unregister <- c`
LegacyReadError(c) ==
    /\ legacyHandler[c] = "read"
    /\ legacyHandler' = [legacyHandler EXCEPT ![c] = "unregister"]
    /\ UNCHANGED <<legacyClients, legacyRun, legacyClosed, legacyWritten, legacySenders,
                   legacyNextId, legacyProcessed>>
    /\ UNCHANGED nonLegVars

\* Hub.run, case client := <-h.unregister: a registered client is deleted
\* and closed (rendezvous with the handler, which breaks out of its loop)
LegacyUnregister(c) ==
    /\ legacyRun.pc = "select"
    /\ legacyHandler[c] = "unregister"
    /\ legacyHandler' = [legacyHandler EXCEPT ![c] = "returning"]
    /\ IF c \in legacyClients
         THEN /\ legacyClients' = legacyClients \ {c}
              /\ legacyClosed' = [legacyClosed EXCEPT ![c] = TRUE]
         ELSE UNCHANGED <<legacyClients, legacyClosed>>
    /\ UNCHANGED <<legacyRun, legacyWritten, legacySenders, legacyNextId, legacyProcessed>>
    /\ UNCHANGED nonLegVars

\* handleLegacyWebSocket returns: deferred c.Close()
LegacyReturn(c) ==
    /\ legacyHandler[c] = "returning"
    /\ legacyHandler' = [legacyHandler EXCEPT ![c] = "returned"]
    /\ legacyClosed' = [legacyClosed EXCEPT ![c] = TRUE]
    /\ UNCHANGED <<legacyClients, legacyRun, legacyWritten, legacySenders, legacyNextId,
                   legacyProcessed>>
    /\ UNCHANGED nonLegVars

\* the position in the iteration order of the first client whose write
\* fails (0: every write succeeds)
FirstFailure(order, fails) ==
    IF \E i \in 1..Len(order) : order[i] \in fails
      THEN CHOOSE i \in 1..Len(order) :
               order[i] \in fails /\ \A j \in 1..(i - 1) : order[j] \notin fails
      ELSE 0

\* Hub.run, case message := <-h.broadcast: the range loop writes the message
\* to the clients in map order.  On a failed write it executes
\* `h.unregister <- client`: a send on an unbuffered channel whose only
\* receiver is this very loop.
LegacyBroadcast(m, order, fails) ==
    /\ legacyRun.pc = "select"
    /\ m \in legacySenders
    /\ legacySenders' = legacySenders \ {m}
    /\ legacyProcessed' = Append(legacyProcessed,
                                 [msg |-> m, reg |-> legacyClients, fails |-> fails])
    /\ LET k == FirstFailure(order, fails)
           reached == IF k = 0 THEN Len(order) ELSE k - 1
       IN /\ legacyWritten' = [c \in LegacyConns |->
                                 IF \E i \in 1..reached : order[i] = c
                                   THEN Append(legacyWritten[c], m)
                                   ELSE legacyWritten[c]]
          /\ legacyRun' = IF k = 0 THEN legacyRun
                          ELSE [pc |-> "sending", client |-> order[k]]
    /\ UNCHANGED <<legacyClients, legacyHandler, legacyClosed, legacyNextId>>
    /\ UNCHANGED nonLegVars

LegacyNext ==
    \/ ManualIngest
    \/ \E c \in LegacyConns : LegacyAccept(c)
    \/ \E c \in LegacyConns : LegacyRegister(c)
    \/ \E c \in LegacyConns : LegacyReadError(c)
    \/ \E c \in LegacyConns : LegacyUnregister(c)
    \/ \E c \in LegacyConns : LegacyReturn(c)
    \/ \E m \in 1..MaxLegacyMsgs, order \in Orders(legacyClients), fails \in SUBSET legacyClients :
           LegacyBroadcast(m, order, fails)

Init ==
    /\ HubInit /\ SessInit /\ CacheInit /\ MktInit /\ FlushInit /\ UpdInit /\ CallerInit
    /\ SvcInit /\ LegacyInit
    /\ startErr = "none"

HubSpec == Init /\ [][HubNext]_vars

SessSpec == Init /\ [][SessNext]_vars

CacheSpec == Init /\ [][CacheNext]_vars

EndpointSpec == Init /\ [][EndpointNext]_vars

FlushSpec == Init /\ [][FlushNext]_vars

LifecycleSpec == Init /\ [][LifecycleNext]_vars

SnapshotSpec == Init /\ [][SnapshotNext]_vars

SubscriptionSpec == Init /\ [][SubscriptionNext]_vars

UpdateSpec == Init /\ [][UpdateNext]_vars

CallerSpec == Init /\ [][CallerNext]_vars

SvcSpec == Init /\ [][SvcNext]_vars

LegacySpec == Init /\ [][LegacyNext]_vars

\* a read loop is scheduled, and a read pending on a transport that is broken
\* or closed returns its error; a read on an open transport may go on for ever
SessLiveSpec ==
    SessSpec /\ \A g \in Gens :
                  /\ WF_vars(ReadLoopSelect(g))
                  /\ WF_vars(ReadError(g) /\ (conn # "open" \/ readLoop[g] = "stale"))

\* every goroutine that has called Init is scheduled
SvcLiveSpec == SvcSpec /\ \A p \in Callers : WF_vars(InitStep(p) /\ ipc[p] # "idle")

\* a flusher whose context is cancelled eventually takes the ctx.Done() case
\* of its select (the choice among ready cases is random)
LifecycleLiveSpec == LifecycleSpec /\ \A g \in Gens : WF_vars(FlusherCtxDone(g))

\* the control loop is scheduled: a ready case of its select is eventually taken
HubLiveSpec == HubSpec /\ WF_vars(HubBroadcast)

\* Every task that can take a step eventually takes one: the control loop
\* serves its register and unregister cases, the handler starts the pumps,
\* each pump proceeds, and a read pending on a closed transport fails.
\* A read on an open transport may go on for ever.
TeardownFairness ==
    \A c \in Clients :
        /\ WF_vars(HubRegister(c))
        /\ WF_vars(StartPumps(c))
        /\ WF_vars(HubUnregister(c))
        /\ WF_vars(ReadPumpError(c) /\ connClosed[c])
        /\ WF_vars(ReadPumpClose(c))
        /\ WF_vars(\E ok \in BOOLEAN : WritePumpMessage(c, ok))
        /\ WF_vars(WritePumpQueueClosed(c))

HubTeardownSpec == HubSpec /\ TeardownFairness

\* the hub and its connections while the service is started and stopped;
\* every task of the hub that can take a step eventually takes one
ShutdownNext ==
    \/ HubNext
    \/ \E ok \in BOOLEAN : StartStreaming(ok)
    \/ Stop

ShutdownSpec ==
    Init /\ [][ShutdownNext]_vars /\ WF_vars(HubBroadcast) /\ TeardownFairness

(***************************************************************************)
(* Properties of the hub                                                   *)
(***************************************************************************)
Range(s) == {s[i] : i \in 1..Len(s)}
Pos(m, s) == CHOOSE i \in 1..Len(s) : s[i] = m
IsPrefix(s, t) == Len(s) <= Len(t) /\ SubSeq(t, 1, Len(s)) = s
InOrderOf(s, t) ==
    /\ Range(s) \subseteq Range(t)
    /\ \A j, k \in 1..Len(s) : j < k => Pos(s[j], t) < Pos(s[k], t)

\* C1: when the control loop processes a message while no registered
\* client's channel is full, the message is enqueued exactly once on the
\* channel of every registered client and on no other channel.
FanOutCompleteness ==
    \A i \in 1..Len(processed) :
        fullAt[i] = {} =>
            \A c \in Clients :
                Count(processed[i], enq[c]) = IF c \in regAt[i] THEN 1 ELSE 0

FanOutCompleteness_Witness ==
    \E i \in 1..Len(processed) :
        /\ fullAt[i] = {}
        /\ regAt[i] = Clients
        /\ \A c \in Clients : processed[i] \in Range(enq[c])

\* C2: a client whose channel is full when a message is processed is out of
\* the registry with its channel closed and does not get the message, while
\* every other registered client whose channel is not full gets it.
SlowConsumerIsolation ==
    \A i \in 1..Len(processed) :
        \A s \in fullAt[i] :
            /\ s \notin clients
            /\ sendClosed[s]
            /\ Count(processed[i], enq[s]) = 0
            /\ \A d \in regAt[i] \ fullAt[i] : Count(processed[i], enq[d]) = 1

\* a client that never drained is evicted by publish SendCap + 1 while
\* another client holds every published message
SlowConsumerIsolation_Witness ==
    \E i \in 1..Len(processed) :
        \E s \in fullAt[i] :
            \E d \in regAt[i] \ fullAt[i] :
                /\ written[s] = <<>>
                /\ Len(enq[s]) = SendCap
                /\ i = SendCap + 1
                /\ enq[d] = processed

\* C3: for every client the messages enqueued on its channel follow the
\* order in which the control loop processed them, and the messages written
\* to its transport are a prefix of the enqueued ones, in the same order.
PerSubscriberFIFO ==
    \A c \in Clients :
        /\ InOrderOf(enq[c], processed)
        /\ IsPrefix(written[c], enq[c])

PerSubscriberFIFO_Witness ==
    \E c \in Clients :
        /\ Len(written[c]) >= 2
        /\ written[c] = SubSeq(processed, 1, Len(written[c]))

\* C4: every message accepted by Broadcast is eventually processed by the
\* control loop, whatever the clients do (no fairness is assumed for the
\* pumps: a client may never drain its channel).
HubNeverWaits ==
    \A m \in 1..MaxMsgs : (m \in Range(broadcast)) ~> (m \in Range(processed))

\* every message was processed although a registered client's channel was full
HubNeverWaits_Witness ==
    /\ Len(processed) = MaxMsgs
    /\ \E i \in 1..Len(processed) : fullAt[i] # {}

\* C10 as stated: the transport of a subscriber is closed only after (or as
\* part of) its removal from the registry.
TransportClosedOnlyAfterRemoval ==
    \A c \in Clients : connClosed[c] => (c \notin clients /\ sendClosed[c])

\* C10 as amended: a subscriber is registered only after its connection was
\* set up, its channel is closed exactly when it has been removed from the
\* registry (so a removed subscriber is never registered again), and while
\* it is registered its transport can only have been closed by its write
\* task: the read task closes the transport only after the control loop has
\* taken its unregister request, and an evicted subscriber's transport is
\* closed only after the eviction.
SubscriberLifecycle ==
    \A c \in Clients :
        /\ c \in clients => handler[c] \in {"spawn", "done"} /\ ~sendClosed[c]
        /\ sendClosed[c] => c \notin clients /\ handler[c] \in {"spawn", "done"}
        /\ rp[c] \in {"close", "done"} => c \notin clients
        /\ (connClosed[c] /\ c \in clients) =>
               (wp[c] = "done" /\ rp[c] \in {"read", "unregister"})
        /\ (connClosed[c] /\ wp[c] # "done") => rp[c] = "done"

\* a subscriber that delivered a message and was then torn down completely
SubscriberLifecycle_Witness ==
    \E c \in Clients :
        /\ Len(written[c]) >= 1
        /\ connClosed[c] /\ sendClosed[c] /\ c \notin clients
        /\ rp[c] = "done" /\ wp[c] = "done"

(***************************************************************************)
(* Properties of the upstream session                                      *)
(***************************************************************************)
Invocations == invoked["ticker"] + invoked["trade"] + invoked["kline"] + invoked["depth"]

\* C5: once the read loop of the current session has returned because of a
\* transport error or a close by the peer, the session and the service
\* report not-running.
ReadLoopExitMarksNotRunning ==
    \A g \in Gens :
        (g = gen /\ readLoop[g] = "exited" /\ exitCause[g] = "transport")
            => (~isRunning /\ ~running)

\* C6: the registered handlers have been invoked exactly once per
\* well-formed frame of a subscribed channel kind (never for a frame that
\* fails to decode), and a read loop never returns because of a frame: it
\* has returned only on a read error or a cancellation.
DecodeResilience ==
    /\ Invocations = nValid
    /\ \A g \in Gens :
           readLoop[g] = "exited" => exitCause[g] \in {"transport", "closed", "cancelled"}

\* one malformed frame and MaxFrames - 1 valid ones have been read, and the
\* session is still running with its read loop alive
DecodeResilience_Witness ==
    /\ nFrames = MaxFrames
    /\ nMalformed = 1
    /\ nValid = MaxFrames - 1
    /\ Invocations = MaxFrames - 1
    /\ isRunning
    /\ gen >= 1 /\ readLoop[gen] \in {"select", "blocked"}


\* C14 (as stated): once the context passed to start is cancelled, no
\* handler is invoked for a frame read after the cancellation (and the
\* transport is closed, so the loops exit without a further frame).  Only
\* Stop closes the transport: after a cancellation of the context alone the
\* read loop stays inside ReadMessage, and it processes the next frame that
\* arrives before it looks at the context again.
NoHandlerAfterCancel ==
    [][ctxDone => invoked' = invoked]_vars

(***************************************************************************)
(* The price cache.                                                        *)
(***************************************************************************)

\* C7: no torn reads: when GetPriceData or GetAllPrices has copied its
\* result, the snapshot it returns for each symbol is the whole value the
\* cache holds for that symbol (the latest one stored), never the fields of
\* two different writes.
NoTornReads ==
    rd = "copied" =>
        \A s \in AllSymbols : rdResult[s].present => rdResult[s] = priceCache[s]

\* a read has returned a whole snapshot of a symbol while the ticker handler
\* waits for the lock with a value for the same symbol that differs from it
\* in every field
NoTornReads_Witness ==
    /\ rd = "copied"
    /\ th = "built"
    /\ rdResult[thData.sym].present
    /\ rdResult[thData.sym].price # thData.price
    /\ rdResult[thData.sym].ts # thData.ts

\* C8 (as stated): the timestamp stored in the cache for a symbol never
\* decreases. The ticker handler reads the clock before it takes the lock, so
\* a refresh that runs in between stores a newer timestamp which the handler
\* then replaces with its older one.
TimestampMonotone ==
    [][\A s \in AllSymbols :
          priceCache[s].present => priceCache'[s].ts >= priceCache[s].ts]_vars

\* the step that changes the entry of s is the ticker handler's write for s
ByTickerHandler(s) ==
    /\ th = "built"
    /\ th' = "idle"
    /\ thData.sym = s
    /\ mu.writer = "none"
    /\ mu.readers = 0

\* the step that changes the entry of s is the refresh loop's write for s
ByRefresh(s) ==
    /\ rf = "locked"
    /\ mu.writer = "refresh"
    /\ mu.readers = 0
    /\ rfTodo # <<>>
    /\ Head(rfTodo) = s
    /\ rfTodo' = Tail(rfTodo)
    /\ s \in symbols

TeardownStarted(c) ==
    \/ rp[c] \in {"unregister", "close", "done"}
    \/ wp[c] = "done"
    \/ sendClosed[c]

TornDown(c) ==
    /\ rp[c] = "done"
    /\ wp[c] = "done"
    /\ connClosed[c]
    /\ c \notin clients
    /\ sendClosed[c]

\* C11: teardown liveness: once a read error, a write error or an overflow
\* eviction has occurred for a subscriber, its read task and its write task
\* both eventually terminate, its transport is closed, and it is absent from
\* the registry with its queue closed, whichever task noticed first.
TeardownLiveness ==
    \A c \in Clients : TeardownStarted(c) ~> TornDown(c)

\* two subscribers are completely torn down: one that the control loop
\* evicted on overflow, and one that never overflowed (its teardown began
\* with a read or write error)
TeardownLiveness_Witness ==
    /\ \E c \in Clients : TornDown(c) /\ \E i \in 1..Len(fullAt) : c \in fullAt[i]
    /\ \E c \in Clients : TornDown(c) /\ \A i \in 1..Len(fullAt) : c \notin fullAt[i]

(***************************************************************************)
(* The /ws/market endpoint.                                                *)
(***************************************************************************)
\* the connections whose handler is serving requests
OpenMarketConns == {e \in MarketConns : mh[e] \in {"read", "writing"}}

\* C12 (as stated): every connection accepted on /ws/market is registered
\* with the broadcast hub, so the registry holds a client for each of them.
\* The handler of the endpoint never creates a WSClient nor sends on
\* h.register, so the registry stays empty while connections are served.
AcceptedConnectionsRegistered ==
    Cardinality(OpenMarketConns) <= Cardinality(clients)

\* the tasks that are in the middle of a write on the transport of e
Writers(e) ==
    (IF mh[e] = "writing" THEN {0} ELSE {}) \cup {k \in Subs : msub[e][k] = "writing"}

\* C13 (as stated): at most one task writes to the transport of a downstream
\* connection at any time.  On /ws/market the handler's loop and each task
\* launched by subscribe_symbol write to the same connection without any
\* mutual exclusion.
OneWriterPerConnection ==
    \A e \in MarketConns : Cardinality(Writers(e)) <= 1

(***************************************************************************)
(* Stopping the service.                                                   *)
(***************************************************************************)
\* the service has been started and stopped again
Stopped == gen >= 1 /\ ~running

\* C15 (as stated): once the service is stopped, the hub unregisters every
\* subscriber and closes every subscriber queue: eventually the registry is
\* empty and every write task has terminated.  MarketDataService.Stop only
\* stops the upstream session and cancels streamCtx; WSHub.Run has no
\* shutdown case, so registered subscribers stay registered.
HubShutdown ==
    Stopped ~> (clients = {} /\ \A c \in Clients : wp[c] \in {"none", "done"})

\* C16: flusher cancellation: after the streaming context of a start is
\* cancelled (Stop, or the caller's context done), the flusher loop of that
\* start eventually exits, and once it has exited it runs no further flush
\* tick, hence issues no further StorePrice call.
FlusherStops ==
    /\ \A g \in Gens : (flusher[g] # "none" /\ streamDone[g]) ~> (flusher[g] = "exited")
    /\ [][\A g \in Gens :
             (flusher[g] = "exited" /\ Len(storeLog') > Len(storeLog))
                 => storeLog'[Len(storeLog')].by # g]_vars

\* the flusher of a start has run a flush tick, its context has been
\* cancelled without Stop, and it has exited
FlusherStops_Witness ==
    \E g \in Gens :
        /\ flusher[g] = "exited"
        /\ running
        /\ \E i \in 1..Len(storeLog) : storeLog[i].by = g

\* the loops launched so far
Launched == <<readLoop, pingLoop, refresher, flusher>>

Covers(streams, sym) ==
    \A suffix \in StreamSuffixes : <<ToLower(sym), suffix>> \in streams

\* C18 (as stated): an instrument added through MarketDataService.AddSymbol
\* is part of the subscription used by the next start: a start that follows
\* an earlier one subscribes to every instrument in the service's list.
\* MarketDataService.AddSymbol appends to s.symbols only; the list the
\* session builds its streams from (wsm.symbols) is a different slice that
\* only BinanceWebSocketManager.AddSymbol extends, and the service never
\* calls it.
RestartCoversAddedSymbols ==
    [][(gen >= 1 /\ ~running /\ running')
          => \A sym \in symbols : Covers(subscription', sym)]_vars

(***************************************************************************)
(* The persistence flusher.                                                *)
(***************************************************************************)
\* the symbols of the calls of a flush record, in order
CallSymbols(rec) == [i \in 1..Len(rec.calls) |-> rec.calls[i].symbol]

\* C19: partial-failure isolation: in every flush tick StorePrice is called
\* exactly once for every symbol the cache holds, whichever calls fail, and
\* a tick with failed calls leaves the flusher loop running.
FlushIsolation ==
    \A i \in 1..Len(storeLog) :
        LET rec == storeLog[i] IN
          /\ \A sym \in AllSymbols :
                 Count(sym, CallSymbols(rec)) = IF rec.cache[sym].present THEN 1 ELSE 0
          /\ rec.failed # {} => flusher[rec.by] = "waiting"

\* a tick in which the first call failed and a second call was still made,
\* followed by a later tick
FlushIsolation_Witness ==
    /\ Len(storeLog) = 2
    /\ Len(storeLog[1].calls) = 2
    /\ storeLog[1].calls[1].symbol \in storeLog[1].failed
    /\ Len(storeLog[2].calls) = 2

\* C20: the flusher does not deduplicate: two consecutive flushes of an
\* unchanged cache issue, for every cached symbol, calls whose payloads are
\* identical in every field, the timestamp included.
FlushRepeats ==
    \A i \in 1..(Len(storeLog) - 1) :
        storeLog[i].cache = storeLog[i + 1].cache =>
            /\ Range(storeLog[i].calls) = Range(storeLog[i + 1].calls)
            /\ \A sym \in AllSymbols :
                   storeLog[i].cache[sym].present =>
                       /\ Count(sym, CallSymbols(storeLog[i])) = 1
                       /\ Count(sym, CallSymbols(storeLog[i + 1])) = 1

\* two flushes of the same cache holding both instruments, the second one
\* after the clock has moved past every cached timestamp
FlushRepeats_Witness ==
    /\ Len(storeLog) = 2
    /\ storeLog[1].cache = storeLog[2].cache
    /\ storeLog[2].cache = priceCache
    /\ \A sym \in AllSymbols : priceCache[sym].present /\ priceCache[sym].ts < now
    /\ Range(storeLog[2].calls) = {MarketPrice(sym) : sym \in AllSymbols}

(***************************************************************************)
(* The event handlers.                                                     *)
(***************************************************************************)
KlineStoreCalls == SelectSeq(storeCalls, LAMBDA r : r.call = "StoreKlineData")
ClosedKlines == SelectSeq(klineSeen, LAMBDA e : e.closed)

\* C21: a candle update triggers a StoreKlineData call if and only if its
\* closed flag is true: the StoreKlineData calls made so far are, in order,
\* one per closed candle update received, for its symbol and open time.
PersistOnlyClosed ==
    /\ Len(KlineStoreCalls) = Len(ClosedKlines)
    /\ \A i \in 1..Len(ClosedKlines) :
           /\ KlineStoreCalls[i].symbol = ClosedKlines[i].symbol
           /\ KlineStoreCalls[i].key = ClosedKlines[i].openTime

\* an in-progress update then the closed update of the same candle have
\* been handled, and exactly one StoreKlineData call was made
PersistOnlyClosed_Witness ==
    /\ Len(klineSeen) = 2
    /\ ~klineSeen[1].closed /\ klineSeen[2].closed
    /\ klineSeen[1].symbol = klineSeen[2].symbol
    /\ klineSeen[1].openTime = klineSeen[2].openTime
    /\ Len(KlineStoreCalls) = 1
    /\ KlineStoreCalls[1].key = klineSeen[2].openTime

\* the message ids whose marshalled update is a candle update of event e
KlineMessages(e) ==
    {id \in 1..MaxMsgs :
        /\ payloads[id].data.type = "kline"
        /\ payloads[id].data.symbol = e.symbol
        /\ payloads[id].data.data.openTime = e.openTime
        /\ payloads[id].data.data.closed = e.closed}

\* C22 (as stated): every in-progress candle update (closed = false) handed
\* to the service has been published to the hub.  handleKlineUpdate returns
\* before its Broadcast call when the candle is not closed.
InProgressKlinePublished ==
    \A i \in 1..Len(klineSeen) :
        ~klineSeen[i].closed => KlineMessages(klineSeen[i]) # {}

\* the names a channel kind is subscribed under
ChannelKind(t) ==
    IF t = <<"ticker">> THEN "ticker"
    ELSE IF t = <<"trade">> THEN "trade"
    ELSE IF t = <<"kline", "_1m">> THEN "kline"
    ELSE IF t = <<"depth", "20">> THEN "depth"
    ELSE "none"

Decoded(f) == f.envelopeOk /\ f.parts = 2 /\ f.payloadOk

\* C23: every decoded frame is dispatched to exactly one handler, the one of
\* its channel kind (kline_1m to kline, depth20 to depth); a decoded frame of
\* no known channel kind invokes no handler and leaves the session running
\* with its read loop alive.
Routing ==
    [][\A g \in Gens, f \in Frames :
          (ReadFrame(g, f) /\ Decoded(f)) =>
              IF ChannelKind(f.type) \in Kinds
                THEN invoked' = [invoked EXCEPT ![ChannelKind(f.type)] = @ + 1]
                ELSE /\ invoked' = invoked
                     /\ isRunning' = isRunning
                     /\ readLoop'[g] = "select"]_vars

\* a candle frame and a depth frame were dispatched, a frame of an unknown
\* channel kind was dropped, and the session is still running
Routing_Witness ==
    /\ nFrames = 3
    /\ nMalformed = 0
    /\ nValid = 2
    /\ invoked["kline"] = 1
    /\ invoked["depth"] = 1
    /\ isRunning
    /\ gen >= 1 /\ readLoop[gen] = "select"

\* C27 (as stated): every message enqueued for a subscriber is an envelope
\* whose top-level fields are type, symbol, data and timestamp, with the
\* kind of the update as its type.  WSHub.Broadcast wraps the update in a
\* WSMessage {type: "market_update", data: update}: the kind, the symbol and
\* the timestamp are one level down.
EnvelopeShape ==
    \A c \in Clients : \A i \in 1..Len(enq[c]) :
        LET m == payloads[enq[c][i]] IN
          /\ DOMAIN m = {"type", "symbol", "data", "timestamp"}
          /\ m.type \in Kinds

(***************************************************************************)
(* Readers and writers of the cache.                                       *)
(***************************************************************************)
\* C24: GetAllPrices returns a defensive copy: a change the caller makes to
\* the returned map never changes the cache (what later GetPriceData and
\* GetAllPrices calls read), and the returned map holds what it was given
\* plus the caller's own changes, whatever is written to the cache later.
DefensiveCopy ==
    /\ [](resultRef # "none" => Returned = expected)
    /\ [][(\E sym \in AllSymbols, v \in CallerValues : CallerWrite(sym, v))
              => priceCache' = priceCache]_vars

\* the caller holds a map it has changed, the cache was written after the
\* call, and the two differ for both instruments
DefensiveCopy_Witness ==
    /\ resultRef # "none"
    /\ \A s \in AllSymbols : priceCache[s].present /\ priceCache[s].ts = MaxTime
    /\ \A s \in AllSymbols : Returned[s] # priceCache[s]
    /\ \E s \in AllSymbols : ~Returned[s].present
    /\ \E s \in AllSymbols : Returned[s].present /\ Returned[s].ts = 0

\* C25 (as stated): a writer for one symbol never waits for a writer of
\* another symbol: a ticker update of an instrument the refresh does not
\* write can take the lock while the refresh is writing.  The cache has one
\* sync.RWMutex for all symbols, held by the refresh for its whole loop.
WritersNeverWait ==
    (th = "built" /\ mu.writer = "refresh" /\ ~IsTracked(thData.sym)) => LockAvailable

(***************************************************************************)
(* Connections of the upstream session.                                    *)
(***************************************************************************)
\* C26: no auto-reconnect: every step that opens an upstream connection is
\* a successful start, each successful start opens exactly one, and once
\* the read loop of the current connection has returned on a transport
\* failure the connection stays closed until the next start.
NoAutoReconnect ==
    /\ [][(conn' = "open" /\ conn # "open") => (StartStreaming(TRUE) /\ gen' = gen + 1)]_vars
    /\ [][gen' # gen => (conn # "open" /\ conn' = "open" /\ gen' = gen + 1)]_vars
    /\ [](\A g \in Gens :
            (g = gen /\ readLoop[g] = "exited" /\ exitCause[g] = "transport")
                => conn = "closed")

\* the first connection broke, and the session was stopped and started
\* again: the second connection is open
NoAutoReconnect_Witness ==
    /\ exitCause[1] = "transport"
    /\ gen = 2
    /\ conn = "open"
    /\ readLoop[2] = "blocked"

(***************************************************************************)
(* svc.Init.                                                               *)
(***************************************************************************)
\* the one-time initialization has completed without an error
InitSucceeded == once.done /\ once.owner = 0 /\ DB = "open" /\ App = "set"

\* C28: svc.Init is safe under concurrent calls: the initialization body is
\* entered at most once, every call returns, and after a successful
\* initialization every caller that has returned finds the same initialised
\* globals.
ConcurrentInit ==
    /\ [](bodyRuns <= 1)
    /\ [](InitSucceeded =>
            \A p \in Callers :
                ipc[p] = "returned" => observed[p] = [db |-> "open", app |-> "set"])
    /\ \A p \in Callers : (ipc[p] # "idle") ~> (ipc[p] = "returned")

\* every caller has returned from a successful initialization, which ran
\* while another caller was waiting for the mutex of the Once
ConcurrentInit_Witness ==
    /\ \A p \in Callers : ipc[p] = "returned"
    /\ InitSucceeded
    /\ bodyRuns = 1
    /\ \A p \in Callers : observed[p] = [db |-> "open", app |-> "set"]

(***************************************************************************)
(* Ownership of the registry.                                              *)
(***************************************************************************)
\* a step of the control loop: one case of the select of WSHub.Run
ControlLoopStep ==
    \/ \E c \in Clients : HubRegister(c)
    \/ \E c \in Clients : HubUnregister(c)
    \/ HubBroadcast

\* C29: registry ownership: every step that adds a subscriber to the
\* registry, removes one from it or closes a subscriber queue is a step of
\* the control loop; HandleWebSocket, readPump, writePump and Broadcast
\* change neither.
RegistryOwnership ==
    [][(clients' # clients \/ sendClosed' # sendClosed) => ControlLoopStep]_vars

\* both subscribers were registered; one was removed on its unregister
\* request, the other evicted by a fan-out, and both pumps of each have run
RegistryOwnership_Witness ==
    /\ clients = {}
    /\ \A c \in Clients : sendClosed[c] /\ rp[c] = "done" /\ wp[c] = "done"
    /\ \E i \in 1..Len(fullAt) : fullAt[i] # {}
    /\ \E i \in 1..Len(regAt) : regAt[i] = Clients

(***************************************************************************)
(* The legacy hub.                                                         *)
(***************************************************************************)
\* C30 (as stated): a failed write of a broadcast message to one client of
\* the legacy hub unregisters and closes that client, the other registered
\* clients still get the message, and the control loop goes on serving
\* requests.  Hub.run handles the failure with `h.unregister <- client`,
\* a send that only Hub.run itself could receive.
LegacyFaultIsolation ==
    /\ legacyRun.pc = "select"
    /\ \A i \in 1..Len(legacyProcessed) :
           LET r == legacyProcessed[i] IN
             \A c \in r.reg :
                 IF c \in r.fails
                   THEN c \notin legacyClients /\ legacyClosed[c]
                   ELSE r.msg \in Range(legacyWritten[c])

(***************************************************************************)
(* Closing of the subscriber queues.                                       *)
(***************************************************************************)
\* C35: queue-close safety: once a subscriber has been registered its queue
\* is open exactly while it is in the registry (and before registration it
\* is open and the subscriber is not in the registry); no queue is closed
\* twice and the control loop never sends on a closed queue (either would
\* panic); an unregister request for a subscriber that was already removed
\* changes neither the registry nor any queue.
QueueCloseSafety ==
    /\ [](hubpc = "run")
    /\ [](\A c \in Clients :
            IF handler[c] \in {"spawn", "done"}
              THEN sendClosed[c] <=> c \notin clients
              ELSE ~sendClosed[c] /\ c \notin clients)
    /\ [][\A c \in Clients :
            (HubUnregister(c) /\ c \notin clients)
                => UNCHANGED <<clients, sendClosed, sendq, hubpc>>]_vars

\* a subscriber was evicted by a fan-out that found its queue full, and the
\* unregister request of its read pump was served afterwards
QueueCloseSafety_Witness ==
    \E c \in Clients :
        /\ \E i \in 1..Len(fullAt) : c \in fullAt[i]
        /\ rp[c] \in {"close", "done"}
        /\ sendClosed[c]
        /\ hubpc = "run"

\* C39 (as stated): Init returns nil only if the globals are initialised:
\* a caller that got a nil error finds DB and App set.  initErr is a local
\* of each call and only the call that runs the body assigns it: after a
\* failed initialization every other call returns nil.
NilOnlyIfInitialised ==
    \A p \in Callers :
        initResult[p] = "nil" => observed[p] = [db |-> "open", app |-> "set"]

(***************************************************************************)
(* The event handlers: persistence errors and the cache.                   *)
(***************************************************************************)
\* the update of kind `kind` for sym was handed to the hub in this step
Published(kind, sym) ==
    /\ nextId' = nextId + 1
    /\ broadcast' = Append(broadcast, nextId)
    /\ payloads'[nextId].data.type = kind
    /\ payloads'[nextId].data.symbol = sym

\* C32: a persistence error never fails the broadcast path: a ticker,
\* trade, depth or closed-candle update whose store call returned an error
\* is still published to the hub, and for a ticker update the cache entry
\* is written all the same.
StoreErrorIsolation ==
    [][/\ \A sym \in AllSymbols, p \in PriceStrings :
            HandleTickerUpdate(sym, p, FALSE, TRUE) =>
                /\ Published("ticker", sym)
                /\ priceCache'[sym] = [present |-> TRUE, price |-> ParseFloat(p), ts |-> now]
       /\ \A sym \in AllSymbols :
            HandleTradeUpdate(sym, FALSE) => Published("trade", sym)
       /\ \A sym \in AllSymbols :
            HandleDepthUpdate(sym, FALSE) => Published("depth", sym)
       /\ \A sym \in AllSymbols, t \in OpenTimes :
            HandleKlineUpdate(sym, t, TRUE, FALSE) => Published("kline", sym)]_vars

\* a ticker update and a closed candle whose store calls both failed have
\* been published, and the ticker is in the cache
StoreErrorIsolation_Witness ==
    /\ Len(storeCalls) = 2
    /\ storeCalls[1].call = "StorePrice" /\ ~storeCalls[1].ok
    /\ storeCalls[2].call = "StoreKlineData" /\ ~storeCalls[2].ok
    /\ payloads[1].data.type = "ticker"
    /\ payloads[2].data.type = "kline"
    /\ priceCache[storeCalls[1].symbol].present

\* C34: trade, depth and candle updates are transient: handling one leaves
\* the cache as it was, and every step that changes the cache is the ticker
\* handler or the refresh.
TransientUpdates ==
    [][/\ (\/ \E sym \in AllSymbols, ok \in BOOLEAN : HandleTradeUpdate(sym, ok)
           \/ \E sym \in AllSymbols, ok \in BOOLEAN : HandleDepthUpdate(sym, ok)
           \/ \E sym \in AllSymbols, t \in OpenTimes, cl \in BOOLEAN, ok \in BOOLEAN :
                  HandleKlineUpdate(sym, t, cl, ok))
              => priceCache' = priceCache
       /\ priceCache' # priceCache =>
              \/ \E sym \in AllSymbols, p \in PriceStrings, sok \in BOOLEAN, mok \in BOOLEAN :
                     HandleTickerUpdate(sym, p, sok, mok)
              \/ RefreshWrite]_vars

\* a ticker put an instrument into the cache, then a depth update and a
\* candle update of the same instrument were handled: the entry is as the
\* ticker left it
TransientUpdates_Witness ==
    /\ Len(storeCalls) = 2
    /\ storeCalls[1].call = "StorePrice"
    /\ storeCalls[2].call = "StoreOrderBookData"
    /\ storeCalls[2].symbol = storeCalls[1].symbol
    /\ Len(klineSeen) >= 1 /\ klineSeen[1].symbol = storeCalls[1].symbol
    /\ priceCache[storeCalls[1].symbol].present
    /\ \A s \in AllSymbols : s # storeCalls[1].symbol => ~priceCache[s].present

(***************************************************************************)
(* Start and Stop of the service and its upstream session.                 *)
(***************************************************************************)
\* C37: StartStreaming on a service that is already running returns the
\* 'already running' error and changes nothing: the connection, the number
\* of starts, the read, keepalive, refresh and flusher loops, the
\* subscription and both running flags are as before, and IsRunning() is
\* still true.  The same holds of the session's own flag: a start that finds
\* wsm.isRunning set opens no connection and launches no loop.
StartWhileRunning ==
    [][\A ok \in BOOLEAN :
         /\ (running /\ StartStreaming(ok)) =>
                /\ startErr' = "already running"
                /\ UNCHANGED <<sessVars, subVars>>
                /\ running'
         /\ (isRunning /\ StartStreaming(ok)) =>
                /\ startErr' # "nil"
                /\ UNCHANGED <<conn, gen, readLoop, pingLoop, refresher, flusher>>]_vars

\* a start was refused while the session of the first start was live
StartWhileRunning_Witness ==
    /\ startErr = "already running"
    /\ running /\ isRunning
    /\ gen = 1
    /\ conn = "open"
    /\ readLoop[1] \in {"select", "blocked"}

\* C38: Stop is idempotent and restartable: Stop on a service that is not
\* running changes nothing; Stop on a running one leaves both running flags
\* false; and a StartStreaming that follows a Stop is not refused as
\* 'already running': when its dial succeeds it returns nil and the service
\* runs again on a new open connection with a new read loop.
StopRestartable ==
    /\ [][(~running /\ Stop) => UNCHANGED vars]_vars
    /\ [][(running /\ Stop) => (~running' /\ ~isRunning')]_vars
    /\ [][\A ok \in BOOLEAN :
            (~running /\ gen >= 1 /\ StartStreaming(ok)) =>
                /\ startErr' # "already running"
                /\ (ok /\ gen < MaxStarts) =>
                       /\ startErr' = "nil"
                       /\ running' /\ isRunning'
                       /\ gen' = gen + 1
                       /\ conn' = "open"
                       /\ readLoop'[gen'] = "select"]_vars

\* the service was started, stopped and started again, and runs
StopRestartable_Witness ==
    /\ gen = 2
    /\ startErr = "nil"
    /\ running /\ isRunning
    /\ streamDone[1] /\ ~streamDone[2]
    /\ conn = "open"

\* the read loops that are in ReadMessage on the connection wsm.conn holds
Readers == {g \in Gens : readLoop[g] = "blocked"}

\* C36 (as stated): at most one upstream session is active: whatever the
\* order of start and stop requests, at most one read loop reads from the
\* open connection, and it is the loop launched by the latest start.  A read
\* loop of an earlier start that is between two reads when Stop and the next
\* Start run finds the new context and the new connection in wsm.ctx and
\* wsm.conn and reads on.
OneActiveSession ==
    /\ Cardinality(Readers) <= 1
    /\ \A g \in Readers : g = gen

RecordOf(c, sym) == [symbol |-> sym, price |-> c[sym].price, ts |-> c[sym].ts]

\* C31 (as stated): the flusher works on a point-in-time copy of the cache:
\* the records stored in one flush tick are the cache contents at a single
\* instant, and a ticker update that arrives while StorePrice calls of the
\* tick are still to be made can take the cache lock at once.
\* storeCachedPricesToTiDB makes no copy: it holds s.mu.RLock() over the
\* whole loop, so the records agree with one instant, and the update waits.
PointInTimeCopy ==
    /\ \A i \in 1..Len(fl.calls) : fl.calls[i] = RecordOf(fl.at, fl.calls[i].symbol)
    /\ (fl.pc = "storing" /\ fl.todo # <<>> /\ th = "built") => LockAvailable
====
